---- MODULE Spec2Model ----
(***************************************************************************)
(* A model of the log post-processing of fed-sparql-survey-expts:          *)
(* organize_data.py (parse_batch_log, getLogDataFromFileOrZipped,          *)
(* get_general_stats, main).                                               *)
(*                                                                         *)
(* Text is modelled at the granularity the code's regular expressions and  *)
(* substring tests look at it:                                             *)
(*   - a batch log is a sequence of lines, each line a record naming what  *)
(*     the regular expressions of parse_batch_log can find on it;          *)
(*   - an execution line is a sequence of blank-separated tokens;          *)
(*   - a line of an auxiliary log is a sequence of words, and a pattern of *)
(*     ERROR_PATTERNS is a sequence of words: "pat in line" is containment *)
(*     of a contiguous run of words;                                       *)
(*   - a timestamp is a number of seconds.                                 *)
(***************************************************************************)
EXTENDS Integers, Sequences, FiniteSets, TLC

(***************************************************************************)
(* Bounds of the model.                                                    *)
(***************************************************************************)
\* most query sections of one batch log
MaxSections == 2
\* most batch logs main reads (rglob finds)
MaxLogs == 2
\* most lines of an auxiliary log drawn freely
MaxAuxLines == 3
\* most tokens of an execution line drawn freely
MaxTokens == 3
\* the records of a summary given to get_general_stats on its own
MaxRecords == 3
\* most entries of an archive given to _read_text_maybe_zipped on its own
MaxMembers == 3
\* most characters of the core clause of a logged query drawn freely
MaxSelect == 3
\* most entries of the corpus of query files
MaxCorpus == 2
\* most lines of an endpoint log drawn freely
MaxLogLines == 4
\* most logged queries of an endpoint log built of whole queries
MaxQueries == 3
\* lines of an output.log
MaxOutLines == 4
\* entries of a query corpus
MaxEntries == 4

(***************************************************************************)
(* Generic helpers on sequences.                                           *)
(***************************************************************************)
Range(s) == {s[i] : i \in 1..Len(s)}

SeqsUpTo(S, n) == UNION {[1..k -> S] : k \in 0..n}

RECURSIVE SumSeq(_)
SumSeq(s) ==
    IF s = <<>> THEN 0 ELSE Head(s) + SumSeq(Tail(s))

RECURSIVE Concat(_)
Concat(ss) ==
    IF ss = <<>> THEN <<>> ELSE Head(ss) \o Concat(Tail(ss))

MinOf(S) == CHOOSE x \in S : \A y \in S : x <= y
MaxOf(S) == CHOOSE x \in S : \A y \in S : x >= y

\* Python's None where a string is expected: a value no string of the model equals
PyNone == <<"<null>">>

(***************************************************************************)
(* Timestamps.  A timestamp string is [w, frac]: the whole seconds and the *)
(* optional fraction ("none": no fraction, "zero": .000000, "half": .5,    *)
(* "bad": a string ISO_RE matches and strptime rejects, such as month 13   *)
(* or seven fractional digits).  An instant (datetime) is a number of half *)
(* seconds ("ticks"); durations are in ticks.                              *)
(***************************************************************************)
Stamp(w, frac) == [w |-> w, frac |-> frac]

\* _parse_iso raises ValueError: neither format matches
parse_iso_raises(ts) == ts.frac = "bad"

\* _parse_iso: "%Y-%m-%dT%H:%M:%S.%f", else "%Y-%m-%dT%H:%M:%S"
parse_iso(ts) ==
    IF ts.frac = "half" THEN 2 * ts.w + 1 ELSE 2 * ts.w

\* datetime.isoformat(): the fraction is written only when it is not zero
isoformat(t) ==
    IF t % 2 = 1 THEN Stamp((t - 1) \div 2, "half") ELSE Stamp(t \div 2, "none")

\* (b - a).total_seconds(), in ticks
total_seconds(a, b) == b - a

(***************************************************************************)
(* Lines of a batch log.  k names what the line is; the other fields hold  *)
(* what the regular expressions of parse_batch_log can find on it:         *)
(*   ts      the strings ISO_RE matches on the line, in order              *)
(*   tokens  the blank-separated tokens of an "Executing: " line           *)
(*   p       the text after "Output:" (see Payload)                        *)
(* Kinds: "blank" (an empty line), "text" (nothing recognised), "close" (a *)
(* text line holding a closing brace), "stamp" (text holding a timestamp), *)
(* "exec" ("Executing: ..."), "start" / "end" ("Timestamp (start): <ts>",  *)
(* "Timestamp (end): <ts>"), "output" ("Output:" and what follows it),     *)
(* "error" ("Error executing command for <name>: <text>").                 *)
(***************************************************************************)
\* The text after "Output:".  open: a "{" follows "Output:\s*"; close: the
\* text holds a "}"; json: the text from "{" to its last "}" decodes;
\* list: the decoded object has a list at results.bindings, of length n.
Payload(open, close, json, list, n) ==
    [open |-> open, close |-> close, json |-> json, list |-> list, n |-> n]

NoPayload == Payload(FALSE, FALSE, FALSE, FALSE, 0)
\* {"head": ..., "results": {"bindings": [b1 .. bn]}}
Bindings(n) == Payload(TRUE, TRUE, TRUE, TRUE, n)
\* an ASK answer {"head": {}, "boolean": true}: no results.bindings
AskAnswer == Payload(TRUE, TRUE, TRUE, FALSE, 0)
\* output cut short: {"head": {"vars": [
Truncated == Payload(TRUE, FALSE, FALSE, FALSE, 0)

Line(k, ts, tokens, p) == [k |-> k, ts |-> ts, tokens |-> tokens, p |-> p]

Blank == Line("blank", <<>>, <<>>, NoPayload)
TextLine == Line("text", <<>>, <<>>, NoPayload)
CloseLine == Line("close", <<>>, <<>>, NoPayload)
StampLine(ts) == Line("stamp", <<ts>>, <<>>, NoPayload)
ExecLine(tokens) == Line("exec", <<>>, tokens, NoPayload)
StartLine(ts) == Line("start", <<ts>>, <<>>, NoPayload)
EndLine(ts) == Line("end", <<ts>>, <<>>, NoPayload)
OutputLine(p) == Line("output", <<>>, <<>>, p)
ErrorLine == Line("error", <<>>, <<>>, NoPayload)

(***************************************************************************)
(* Tokens of an execution line.                                            *)
(*   "url"   http://<host>, followed by "-fed.org/sparql" when dashf, and  *)
(*           by a final "/" when slash                                     *)
(*   "flag"  the flag -f                                                   *)
(*   "path"  a file path, path its components                              *)
(*   "word"  any other word (node, -t, ...)                                *)
(***************************************************************************)
Token(t, host, dashf, slash, path) ==
    [t |-> t, host |-> host, dashf |-> dashf, slash |-> slash, path |-> path]

Url(host, dashf, slash) == Token("url", host, dashf, slash, <<>>)
FlagF == Token("flag", "", FALSE, FALSE, <<>>)
PathTok(path) == Token("path", "", FALSE, FALSE, path)
Word == Token("word", "", FALSE, FALSE, <<>>)

(***************************************************************************)
(* Auxiliary logs and the files of the directory.                          *)
(* A line of an auxiliary log is a sequence of words.  A file is plain     *)
(* (lines) or a zip archive (members, each a name and its lines).          *)
(***************************************************************************)
ERROR_PATTERNS ==
    << <<"FATAL", "ERROR:", "Reached", "heap", "limit", "Allocation", "failed">>,
       <<"fetch", "failed">>,
       <<"DEBUG:", "Server", "reported", "client-side", "error">>,
       <<"DEBUG:", "Server-side", "error", "encountered">> >>

\* the words that are whole ANSI escape sequences (ESC [ ... m)
AnsiWords == {"ESC[31m", "ESC[0m"}
\* the words that hold a "[" that is not part of an escape sequence; "ESC["
\* is an escape sequence cut short, which ANSI_ESCAPE does not match
BracketWords == {"[native]", "ESC["}

\* "pat in line": pat is a contiguous run of the words of line
IsInfix(pat, line) ==
    \E i \in 0..(Len(line) - Len(pat)) :
        \A j \in 1..Len(pat) : line[i + j] = pat[j]

RECURSIVE strip_ansi(_)
\* ANSI_ESCAPE.sub("", s)
strip_ansi(line) ==
    IF line = <<>> THEN <<>>
    ELSE IF Head(line) \in AnsiWords THEN strip_ansi(Tail(line))
    ELSE <<Head(line)>> \o strip_ansi(Tail(line))

PlainFile(lines) == [zip |-> FALSE, lines |-> lines, members |-> <<>>]
ZipFile(members) == [zip |-> TRUE, lines |-> <<>>, members |-> members]
Member(name, lines) == [name |-> name, lines |-> lines]

\* n.endswith("/")
IsDirName(name) == name \in {"logs/"}

RECURSIVE NonDirMembers(_)
\* [n for n in zf.namelist() if not n.endswith("/")]
NonDirMembers(members) ==
    IF members = <<>> THEN <<>>
    ELSE IF IsDirName(Head(members).name) THEN NonDirMembers(Tail(members))
    ELSE <<Head(members)>> \o NonDirMembers(Tail(members))

\* first_pattern with the list searched from its end
first_pattern_last(line) ==
    LET hits == {i \in 1..Len(ERROR_PATTERNS) : IsInfix(ERROR_PATTERNS[i], line)}
    IN IF hits = {} THEN PyNone ELSE ERROR_PATTERNS[MaxOf(hits)]

\* for pat in ERROR_PATTERNS: if pat in line: found_error = pat; break
\* (PyNone: no pattern is in the line, found_error stays None)
first_pattern(line) ==
    LET hits == {i \in 1..Len(ERROR_PATTERNS) : IsInfix(ERROR_PATTERNS[i], line)}
    IN IF hits = {} THEN PyNone ELSE ERROR_PATTERNS[MinOf(hits)]

RECURSIVE process_lines(_, _, _)
\* the loop of process_lines from the state st = [info_count, found_error,
\* last_line] over the lines that remain
process_lines(lines, has_error, st) ==
    IF lines = <<>> THEN st
    ELSE
        LET line == Head(lines)
            count == IF IsInfix(<<"INFO:", "Requesting">>, line)
                     THEN st.info_count + 1 ELSE st.info_count
            found == IF has_error /\ st.found_error = PyNone
                     THEN first_pattern(line)
                     ELSE st.found_error
        IN process_lines(Tail(lines), has_error,
                         [info_count |-> count, found_error |-> found, last_line |-> line])

\* lines 263-265
NoLines == [info_count |-> 0, found_error |-> PyNone, last_line |-> <<>>]

\* lines 280-299: the lines process_lines is given, or the exception raised
\* when the archive has no file or more than one
open_log(file) ==
    IF file.zip
    THEN LET files == NonDirMembers(file.members)
         IN IF files = <<>> THEN [exc |-> "FileNotFoundError", lines |-> <<>>]
            ELSE IF Len(files) > 1 THEN [exc |-> "ValueError", lines |-> <<>>]
            ELSE [exc |-> "None", lines |-> files[1].lines]
    ELSE [exc |-> "None", lines |-> file.lines]

LogData(exc, count, err) == [exc |-> exc, info_count |-> count, error |-> err]

\* the "--- Return results ---" part of getLogDataFromFileOrZipped
log_data_result(has_error, st) ==
    IF ~has_error THEN LogData("None", st.info_count, PyNone)
    ELSE IF st.last_line = <<>> THEN LogData("None", st.info_count, <<>>)
    ELSE IF st.found_error # PyNone THEN LogData("None", st.info_count, st.found_error)
    ELSE LET cleaned_last == strip_ansi(st.last_line)
         IN IF \E i \in 1..Len(cleaned_last) : cleaned_last[i] \in BracketWords
            THEN LogData("None", st.info_count, <<"Unknown", "Error">>)
            ELSE LogData("None", st.info_count, cleaned_last)

\* getLogDataFromFileOrZipped(file_path, member=None, has_error): exc names the
\* exception raised ("None": it returns (info_count, error))
getLogDataFromFileOrZipped(file, has_error) ==
    LET opened == open_log(file)
    IN IF opened.exc # "None" THEN LogData(opened.exc, 0, PyNone)
       ELSE log_data_result(has_error, process_lines(opened.lines, has_error, NoLines))

(***************************************************************************)
(* _read_text_maybe_zipped.  The content of a file or of a member is a     *)
(* sequence of chunks of bytes; "0xFF" is a chunk that is no UTF-8.        *)
(***************************************************************************)
\* n.lower().endswith(".txt")
is_txt_name(name) == name \in {"run.txt", "OLD.TXT"}

RECURSIVE TxtMembers(_)
\* [n for n in names if n.lower().endswith(".txt")]
TxtMembers(names) ==
    IF names = <<>> THEN <<>>
    ELSE IF is_txt_name(Head(names).name) THEN <<Head(names)>> \o TxtMembers(Tail(names))
    ELSE TxtMembers(Tail(names))

\* io.TextIOWrapper(f, encoding="utf-8", errors="replace").read(): what is no
\* UTF-8 becomes U+FFFD
decode_replace(bytes) ==
    [j \in 1..Len(bytes) |-> IF bytes[j] = "0xFF" THEN "U+FFFD" ELSE bytes[j]]

\* zf.open(member): the entry of that name that was written last
open_member(names, member) ==
    names[MaxOf({j \in 1..Len(names) : names[j].name = member})]

ReadResult(exc, txt) == [exc |-> exc, text |-> txt]

\* _read_text_maybe_zipped with the first file of the archive taken when
\* no member is named
read_text_first_member(file, member) ==
    IF file.zip
    THEN LET names == NonDirMembers(file.members)
         IN IF names = <<>> THEN ReadResult("FileNotFoundError", <<>>)
            ELSE IF member = <<>> THEN ReadResult("None", decode_replace(names[1].lines))
            ELSE IF \A j \in 1..Len(names) : names[j].name # member[1]
            THEN ReadResult("FileNotFoundError", <<>>)
            ELSE ReadResult("None", decode_replace(open_member(names, member[1]).lines))
    ELSE ReadResult("None", decode_replace(file.lines))

\* _read_text_maybe_zipped(path, member): member is <<>> for None; exc names
\* the exception raised ("None": the text is returned)
read_text_maybe_zipped(file, member) ==
    IF file.zip
    THEN LET names == NonDirMembers(file.members)
             txts == TxtMembers(names)
         IN IF names = <<>> THEN ReadResult("FileNotFoundError", <<>>)
            ELSE IF member = <<>>
            THEN IF Len(txts) = 1 THEN ReadResult("None", decode_replace(txts[1].lines))
                 ELSE IF Len(txts) = 0 /\ Len(names) = 1
                 THEN ReadResult("None", decode_replace(names[1].lines))
                 ELSE ReadResult("ValueError", <<>>)
            ELSE IF \A j \in 1..Len(names) : names[j].name # member[1]
            THEN ReadResult("FileNotFoundError", <<>>)
            ELSE ReadResult("None", decode_replace(open_member(names, member[1]).lines))
    ELSE ReadResult("None", decode_replace(file.lines))

(***************************************************************************)
(* parse_batch_log: the splitting of the text.                             *)
(***************************************************************************)
RECURSIVE lstrip(_)
lstrip(lines) ==
    IF lines # <<>> /\ Head(lines).k = "blank" THEN lstrip(Tail(lines)) ELSE lines

RECURSIVE rstrip(_)
rstrip(lines) ==
    IF lines # <<>> /\ lines[Len(lines)].k = "blank"
    THEN rstrip(SubSeq(lines, 1, Len(lines) - 1)) ELSE lines

\* text.strip(): the blank lines at both ends go
strip(lines) == rstrip(lstrip(lines))

RECURSIVE split_blocks(_)
\* re.split(r"\n{2,}", text) of a stripped text: the runs of lines between
\* runs of blank lines (one empty block for an empty text)
split_blocks(lines) ==
    IF \E i \in 1..Len(lines) : lines[i].k = "blank"
    THEN LET i == MinOf({m \in 1..Len(lines) : lines[m].k = "blank"})
             j == MinOf({m \in i..Len(lines) : lines[m].k # "blank"})
         IN <<SubSeq(lines, 1, i - 1)>> \o split_blocks(SubSeq(lines, j, Len(lines)))
    ELSE <<lines>>

RECURSIVE split_sections(_)
\* re.split(r"\n(?=Executing: )", text): a cut before every line that begins
\* with "Executing: " and is not the first line
split_sections(lines) ==
    IF \E i \in 2..Len(lines) : lines[i].k = "exec"
    THEN LET i == MinOf({m \in 2..Len(lines) : lines[m].k = "exec"})
         IN <<SubSeq(lines, 1, i - 1)>> \o split_sections(SubSeq(lines, i, Len(lines)))
    ELSE <<lines>>

\* sec.startswith("Executing: ")
starts_with_marker(sec) == sec # <<>> /\ sec[1].k = "exec"

RECURSIVE find_iso(_)
\* re.findall(ISO_RE, block)
find_iso(block) ==
    IF block = <<>> THEN <<>> ELSE Head(block).ts \o find_iso(Tail(block))

(***************************************************************************)
(* parse_batch_log: one query section.                                     *)
(***************************************************************************)
\* the text of the token after the flag, as os.path.basename sees it
basename(tok) ==
    IF tok.t = "path" THEN (IF tok.path = <<>> THEN "" ELSE tok.path[Len(tok.path)])
    ELSE IF tok.t = "url" THEN (IF tok.slash THEN "" ELSE IF tok.dashf THEN "sparql" ELSE tok.host)
    ELSE IF tok.t = "flag" THEN "-f"
    ELSE "word"

\* re.search(r"-f\s+([^\s]+)", sec) and os.path.basename of its group:
\* <<>> stands for query_name = None, <<name>> for a name.  Only execution
\* lines hold the flag, and a flag that ends its line has no group here (the
\* batch logs of Inputs have no such line).
query_name_of(sec) ==
    LET toks == sec[1].tokens
        at == {i \in 1..(Len(toks) - 1) : toks[i].t = "flag"}
    IN IF at = {} THEN <<>> ELSE <<basename(toks[MinOf(at)  + 1])>>

\* exec_line.split("-f")[0], then re.findall(URL_RE, pre_f) with rstrip("/"):
\* the text is cut at the first "-f", be it the flag or inside a word
urls_of(exec_line) ==
    LET toks == exec_line.tokens
        cut == {i \in 1..Len(toks) : toks[i].t = "flag" \/ (toks[i].t = "url" /\ toks[i].dashf)}
        n == IF cut = {} THEN Len(toks) ELSE MinOf(cut)
        found == [i \in 1..n |->
                    IF toks[i].t = "url" THEN <<Url(toks[i].host, FALSE, FALSE)>> ELSE <<>>]
    IN Concat(found)

RECURSIVE dedup(_, _)
\* the loop over urls with the set seen: sources so far is acc
dedup(urls, acc) ==
    IF urls = <<>> THEN acc
    ELSE IF Head(urls) \in Range(acc) THEN dedup(Tail(urls), acc)
    ELSE dedup(Tail(urls), Append(acc, Head(urls)))

sources_of(sec) == dedup(urls_of(sec[1]), <<>>)

\* re.search of "Timestamp (start): <ts>" (kind "start") or "Timestamp (end):
\* <ts>" (kind "end") in sec: the index of the first such line, 0 for no match
search_line(sec, kind) ==
    LET at == {i \in 1..Len(sec) : sec[i].k = kind}
    IN IF at = {} THEN 0 ELSE MinOf(at)

\* mid_of that takes the whole section
mid_of_section(sec) == sec

\* mid = sec[start_m.end():end_m.start()] when both matched, else ""
mid_of(sec) ==
    LET s == search_line(sec, "start")
        e == search_line(sec, "end")
    IN IF s # 0 /\ e # 0 /\ s < e THEN SubSeq(sec, s + 1, e - 1) ELSE <<>>

HasClose(line) == line.k = "close" \/ (line.k = "output" /\ line.p.close)

\* inline_payload with an empty bindings list taken for no result
\* (produced_results = results_count > 0)
inline_payload_nonempty(mid) ==
    LET at == {i \in 1..Len(mid) : mid[i].k = "output" /\ mid[i].p.open}
    IN IF at = {} THEN [produced_results |-> FALSE, results_count |-> 0]
       ELSE LET i == MinOf(at)
                decodes == mid[i].p.json /\ ~(\E j \in (i + 1)..Len(mid) : HasClose(mid[j]))
            IN IF decodes /\ mid[i].p.list
               THEN [produced_results |-> mid[i].p.n > 0, results_count |-> mid[i].p.n]
               ELSE [produced_results |-> FALSE, results_count |-> 0]

\* inline_payload that takes any decoded object for a result
inline_payload_any_object(mid) ==
    LET at == {i \in 1..Len(mid) : mid[i].k = "output" /\ mid[i].p.open}
    IN IF at = {} THEN [produced_results |-> FALSE, results_count |-> 0]
       ELSE LET i == MinOf(at)
                decodes == mid[i].p.json /\ ~(\E j \in (i + 1)..Len(mid) : HasClose(mid[j]))
            IN IF decodes
               THEN [produced_results |-> TRUE, results_count |-> mid[i].p.n]
               ELSE [produced_results |-> FALSE, results_count |-> 0]

\* re.search(r"Output:\s*(\{.*)", mid), the cut at the last "}" and json.loads:
\* [produced_results, results_count] as lines 134-150 leave them
inline_payload(mid) ==
    LET at == {i \in 1..Len(mid) : mid[i].k = "output" /\ mid[i].p.open}
    IN IF at = {} THEN [produced_results |-> FALSE, results_count |-> 0]
       ELSE LET i == MinOf(at)
                decodes == mid[i].p.json /\ ~(\E j \in (i + 1)..Len(mid) : HasClose(mid[j]))
            IN IF decodes /\ mid[i].p.list
               THEN [produced_results |-> mid[i].p.n >= 0, results_count |-> mid[i].p.n]
               ELSE [produced_results |-> FALSE, results_count |-> 0]

\* re.search(r"Error executing command for\s+[^\n:]+:\s*(.*)", sec)
has_error_line(sec) == \E i \in 1..Len(sec) : sec[i].k = "error"

\* file_exists(parent_dir, filename): dir maps the names of the files next to
\* the batch log to their content
file_exists(dir, filename) == filename \in DOMAIN dir

\* lines 153-170: the auxiliary log of the section.  The result is [exc,
\* http_count, error_text]; exc names the exception that leaves
\* parse_batch_log ("None": the section goes on to entries.append).
\* name is query_name (<<>> for None), http_count the value the variable has
\* when the section begins.
aux_lookup(dir, name, produced_results, em, http_count) ==
    IF ~produced_results /\ ~em
    THEN [exc |-> "None", http_count |-> http_count, error_text |-> PyNone]
    ELSE IF name = <<>>
    THEN \* query_name + ".log" with query_name None
         [exc |-> "TypeError", http_count |-> http_count, error_text |-> PyNone]
    ELSE LET log == name[1] \o ".log"
             zipped == name[1] \o ".log.zip"
             has_error == ~produced_results
         IN IF file_exists(dir, log) \/ file_exists(dir, zipped)
            THEN LET file == IF file_exists(dir, log) THEN dir[log] ELSE dir[zipped]
                     r == getLogDataFromFileOrZipped(file, has_error)
                 IN IF r.exc # "None"
                    THEN [exc |-> r.exc, http_count |-> http_count, error_text |-> PyNone]
                    ELSE [exc |-> "None", http_count |-> r.info_count, error_text |-> r.error]
            ELSE IF produced_results
            THEN [exc |-> "None", http_count |-> 0, error_text |-> PyNone]
            ELSE [exc |-> "None", http_count |-> http_count,
                  error_text |-> <<"Unknown", "Error">>]

\* make_entry with the error text as the auxiliary log gave it
make_entry_raw_error(name, sources, start_ts, end_ts, http_count, produced_results, results_count, error_text) ==
    [ query_name |-> name,
      sources |-> sources,
      start |-> IF start_ts = <<>> THEN <<>> ELSE <<isoformat(start_ts[1])>>,
      end |-> IF end_ts = <<>> THEN <<>> ELSE <<isoformat(end_ts[1])>>,
      duration_seconds |-> IF start_ts # <<>> /\ end_ts # <<>>
                           THEN <<total_seconds(start_ts[1], end_ts[1])>> ELSE <<>>,
      http_requests |-> http_count,
      produced_results |-> produced_results,
      results_count |-> IF produced_results THEN results_count ELSE 0,
      error |-> error_text ]

\* the record of entries.append (lines 172-182).  An optional value is <<>>
\* (None, or the string "None" of start and end) or <<v>>; error is a string
\* (a sequence of words) or PyNone.
make_entry(name, sources, start_ts, end_ts, http_count, produced_results, results_count, error_text) ==
    [ query_name |-> name,
      sources |-> sources,
      start |-> IF start_ts = <<>> THEN <<>> ELSE <<isoformat(start_ts[1])>>,
      end |-> IF end_ts = <<>> THEN <<>> ELSE <<isoformat(end_ts[1])>>,
      duration_seconds |-> IF start_ts # <<>> /\ end_ts # <<>>
                           THEN <<total_seconds(start_ts[1], end_ts[1])>> ELSE <<>>,
      http_requests |-> http_count,
      produced_results |-> produced_results,
      results_count |-> IF produced_results THEN results_count ELSE 0,
      error |-> IF produced_results THEN <<"None">> ELSE error_text ]

\* the body of "for sec in sections" for a section that starts with the
\* marker: [exc, entry, http_count]
parse_section(sec, dir, http_count) ==
    LET name == query_name_of(sec)
        sources == sources_of(sec)
        s == search_line(sec, "start")
        e == search_line(sec, "end")
        bad == (s # 0 /\ parse_iso_raises(sec[s].ts[1]))
               \/ (e # 0 /\ parse_iso_raises(sec[e].ts[1]))
        start_ts == IF s = 0 THEN <<>> ELSE <<parse_iso(sec[s].ts[1])>>
        end_ts == IF e = 0 THEN <<>> ELSE <<parse_iso(sec[e].ts[1])>>
        out == inline_payload(mid_of(sec))
        aux == aux_lookup(dir, name, out.produced_results, has_error_line(sec), http_count)
    IN IF bad
       THEN [exc |-> "ValueError", entry |-> <<>>, http_count |-> http_count]
       ELSE IF aux.exc # "None"
       THEN [exc |-> aux.exc, entry |-> <<>>, http_count |-> http_count]
       ELSE [exc |-> "None",
             entry |-> <<make_entry(name, sources, start_ts, end_ts, aux.http_count,
                                    out.produced_results, out.results_count,
                                    aux.error_text)>>,
             http_count |-> aux.http_count]

(***************************************************************************)
(* get_general_stats.                                                      *)
(***************************************************************************)
\* the row is one that get_general_stats built: its query_name is the base
\* name of the input directory (no query file of the inputs has that name)
is_general_row(e) == e.query_name = <<"experiment">>

\* e.get("produced_results", False), by its truth value: a record holds a
\* boolean there, a general row a count (true when it is not 0)
has_results(e) ==
    IF is_general_row(e) THEN e.produced_results # 0 ELSE e.produced_results

\* num_with_num_results counting the records that produced results
num_with_num_results_produced(es) == Cardinality({j \in 1..Len(es) : has_results(es[j])})

\* sum(1 for e in entries if e.get("results_count", 0) > 0)
num_with_num_results(es) == Cardinality({j \in 1..Len(es) : es[j].results_count > 0})
\* sum(1 for e in entries if e.get("produced_results", False))
num_with_results(es) == Cardinality({j \in 1..Len(es) : has_results(es[j])})
\* sum(1 for e in entries if not e.get("produced_results", False))
num_errors(es) == Cardinality({j \in 1..Len(es) : ~has_results(es[j])})

\* the row get_general_stats builds (lines 202-212); the directory's base
\* name is "experiment"
general_row_of(summary) ==
    [ query_name |-> <<"experiment">>,
      sources |-> "None",
      start |-> <<isoformat(parse_iso(summary.general_stats.run_start[1]))>>,
      end |-> <<isoformat(parse_iso(summary.general_stats.run_end[1]))>>,
      duration_seconds |-> <<summary.general_stats.run_duration_seconds>>,
      http_requests |-> PyNone,
      produced_results |-> num_with_results(summary.entries),
      results_count |-> num_with_num_results(summary.entries),
      error |-> num_errors(summary.entries) ]

\* get_general_stats with the general row put last
get_general_stats_append(summary) ==
    [ general_stats |-> summary.general_stats,
      entries |-> summary.entries \o <<general_row_of(summary)>> ]

\* get_general_stats(summary, input_dirc): entries.insert(0, general_row) and
\* the dictionary returned, which shares the list with summary
get_general_stats(summary) ==
    [ general_stats |-> summary.general_stats,
      entries |-> <<general_row_of(summary)>> \o summary.entries ]

(***************************************************************************)
(* The inputs: the batch logs of the input directory and the auxiliary     *)
(* logs beside them.                                                       *)
(***************************************************************************)
\* lines of auxiliary logs
ReqLine == <<"INFO:", "Requesting", "http://a">>
FetchLine == <<"ESC[31m", "fetch", "failed", "ESC[0m">>
KilledLine == <<"ESC[31m", "Killed">>

\* what lies beside the batch logs
DirPlain ==
    [n \in {"q1.rq.log"} |-> PlainFile(<<ReqLine, ReqLine, FetchLine, ReqLine>>)]
DirZip ==
    [n \in {"q1.rq.log.zip", "q2.rq.log", "q2.rq.log.zip"} |->
        IF n = "q1.rq.log.zip"
        THEN ZipFile(<<Member("logs/", <<>>), Member("q1.rq.log", <<ReqLine, KilledLine>>)>>)
        ELSE IF n = "q2.rq.log"
        THEN PlainFile(<<ReqLine, FetchLine, <<>> >>)
        ELSE ZipFile(<<Member("q2.rq.log", <<ReqLine, ReqLine>>)>>)]
DirManyMembers ==
    [n \in {"q1.rq.log.zip", "q2.rq.log"} |->
        IF n = "q1.rq.log.zip"
        THEN ZipFile(<<Member("q1.rq.log", <<ReqLine>>), Member("old.log", <<>>)>>)
        ELSE PlainFile(<<>>)]
Dirs == {DirPlain, DirZip, DirManyMembers}

\* execution lines, as execute_queries writes them and with the -f flag missing
ExecQ1 == ExecLine(<<Word, Url("a", FALSE, FALSE), Url("b", FALSE, TRUE), Url("a", FALSE, TRUE),
                     FlagF, PathTok(<<"ns", "q1.rq">>), Word>>)
ExecQ2 == ExecLine(<<Word, Url("b", FALSE, FALSE), FlagF, PathTok(<<"q2.rq">>), Word>>)
ExecNoFile == ExecLine(<<Word, Url("a", FALSE, FALSE)>>)
ExecDashF == ExecLine(<<Word, Url("c", TRUE, FALSE), Url("a", FALSE, FALSE),
                        FlagF, PathTok(<<"ns", "q1.rq">>)>>)

T1 == Stamp(1, "none")
T2 == Stamp(2, "half")

\* what may lie between the execution line and the blank line of a section
Bodies ==
    { <<StartLine(T1), OutputLine(Bindings(0)), EndLine(T2)>>,
      <<StartLine(T1), OutputLine(Bindings(2)), EndLine(T2)>>,
      <<StartLine(T1), ErrorLine, EndLine(T2)>>,
      <<StartLine(T1), OutputLine(NoPayload), EndLine(T2)>>,
      <<StartLine(T1), OutputLine(AskAnswer), EndLine(T2)>>,
      <<StartLine(T1), OutputLine(Truncated), ErrorLine, EndLine(T2)>>,
      <<OutputLine(Bindings(1)), EndLine(T2)>>,
      <<StartLine(T1), OutputLine(Bindings(1))>>,
      <<StartLine(T1), OutputLine(Bindings(1)), CloseLine, EndLine(T2)>>,
      <<StartLine(T1), EndLine(T2), OutputLine(Bindings(1))>>,
      <<StartLine(Stamp(1, "bad")), ErrorLine, EndLine(T2)>>,
      <<StartLine(T1), OutputLine(Bindings(1)), ErrorLine, EndLine(T2)>> }

CommonBodies ==
    { <<StartLine(T1), OutputLine(Bindings(2)), EndLine(T2)>>,
      <<StartLine(T1), ErrorLine, EndLine(T2)>>,
      <<StartLine(T1), OutputLine(AskAnswer), EndLine(T2)>> }

Section(exec, body) == <<exec>> \o body \o <<Blank>>

Sections ==
    {Section(ExecQ1, b) : b \in Bodies}
    \cup {Section(e, b) : e \in {ExecQ2, ExecNoFile, ExecDashF}, b \in CommonBodies}

\* a block of text that is no query section
Filler == <<TextLine, Blank>>

\* the run header ("Experiment log for: ...", "Experiment ... began at <ts>",
\* a blank line) and the run footer ("Experiment ... completed at <ts>")
Header(ts) == <<TextLine, StampLine(ts), Blank>>
Footer(ts) == <<StampLine(ts)>>

Headers ==
    {<<>>, <<TextLine, Blank>>} \cup
    {Header(ts) : ts \in {Stamp(0, "none"), Stamp(1, "half"), Stamp(0, "bad")}}
Footers ==
    {<<>>, <<TextLine>>} \cup {Footer(ts) : ts \in {Stamp(3, "none"), Stamp(0, "zero")}}

\* logs of any structure around at most one section
StructuralLogs ==
    {h \o Concat(m) \o f :
        h \in Headers, f \in Footers,
        m \in SeqsUpTo({Filler, Section(ExecQ1, <<StartLine(T1), ErrorLine, EndLine(T2)>>)}, 1)}

\* complete logs of up to MaxSections sections of every kind
SectionLogs ==
    {Header(Stamp(0, "none")) \o Concat(m) \o Footer(Stamp(3, "none")) :
        m \in SeqsUpTo(Sections, MaxSections)}

BatchLogs == StructuralLogs \cup SectionLogs

\* the logs of a directory of several batch logs
SmallLogs ==
    {Header(h) \o Concat(m) \o f :
        h \in {Stamp(0, "none"), Stamp(1, "half")},
        f \in {Footer(Stamp(3, "none")), Footer(Stamp(2, "half")), <<TextLine>>},
        m \in { <<Filler>>,
                <<Section(ExecQ1, <<StartLine(T1), OutputLine(Bindings(2)), EndLine(T2)>>)>>,
                <<Section(ExecQ1, <<StartLine(T1), OutputLine(Bindings(0)), EndLine(T2)>>),
                  Section(ExecQ2, <<StartLine(T1), ErrorLine, EndLine(T2)>>)>> }}

\* inputs = sorted(input_dir.rglob("*.txt*")): the texts of the files found
Inputs ==
    {<<l>> : l \in BatchLogs} \cup SeqsUpTo(SmallLogs, MaxLogs)

(***************************************************************************)
(* The state of main and of the parse_batch_log call in progress.          *)
(***************************************************************************)
VARIABLES
    pc,               \* where main is
    dir,              \* the files beside the batch logs
    inputs,           \* the batch logs found
    i,                \* the batch logs parsed so far
    k,                \* parse_batch_log: the section the loop is at
    run,              \* parse_batch_log: run_start, run_end, run_duration_s
    http_count,       \* parse_batch_log: the variable of line 96
    entries,          \* parse_batch_log: its list of records
    working_summary,  \* main: what parse_batch_log returned last (<<>>: nothing yet)
    earliest,         \* main: <<>> for None
    latest,           \* main: <<>> for None
    total_duration,   \* main
    overall_summary,  \* main
    runs,             \* history: the run windows parse_batch_log returned
    exc,              \* the exception that ended main ("None": none)
    call              \* a call of a function on its own (NoCall: none)

vars == <<pc, dir, inputs, i, k, run, http_count, entries, working_summary,
          earliest, latest, total_duration, overall_summary, runs, exc, call>>

NoCall == [fn |-> "none"]
NoRun == [run_start |-> 0, run_end |-> 0, run_duration_s |-> 0]

\* the text parse_batch_log is working on, stripped
text == strip(inputs[i + 1])
sections == split_sections(text)

\* the variables of main and parse_batch_log before main has done anything
Fresh ==
    /\ i = 0
    /\ k = 0
    /\ run = NoRun
    /\ http_count = 0
    /\ entries = <<>>
    /\ working_summary = <<>>
    /\ earliest = <<>>
    /\ latest = <<>>
    /\ total_duration = 0
    /\ overall_summary =
         [general_stats |-> [run_start |-> <<>>, run_end |-> <<>>, run_duration_seconds |-> 0],
          entries |-> <<>>]
    /\ runs = <<>>
    /\ exc = "None"

Init ==
    /\ pc = "start"
    /\ dir \in Dirs
    /\ inputs \in Inputs
    /\ call = NoCall
    /\ Fresh

parse_vars == <<k, run, http_count, entries>>
main_vars == <<working_summary, earliest, latest, total_duration, overall_summary, runs>>

\* main, lines 345-348: no batch log, sys.exit(0)
NoInputs ==
    /\ pc = "start"
    /\ inputs = <<>>
    /\ pc' = "exit"
    /\ UNCHANGED <<dir, inputs, i, exc, call>>
    /\ UNCHANGED parse_vars
    /\ UNCHANGED main_vars

\* main, lines 350-365: the loop over inputs begins
StartLoop ==
    /\ pc = "start"
    /\ inputs # <<>>
    /\ pc' = "read"
    /\ UNCHANGED <<dir, inputs, i, exc, call>>
    /\ UNCHANGED parse_vars
    /\ UNCHANGED main_vars

\* window_exc that lets a text of two blocks pass
window_exc_two_blocks(t) ==
    LET blocks == split_blocks(t)
        first_ts == find_iso(blocks[1])
        last_ts == find_iso(blocks[Len(blocks)])
    IN IF Len(blocks) < 2 THEN "ValueError"
       ELSE IF first_ts = <<>> \/ last_ts = <<>> THEN "ValueError"
       ELSE IF parse_iso_raises(first_ts[1]) \/ parse_iso_raises(last_ts[Len(last_ts)])
       THEN "ValueError"
       ELSE "None"

\* what lines 86-95 raise on the stripped text t ("None": nothing)
window_exc(t) ==
    LET blocks == split_blocks(t)
        first_ts == find_iso(blocks[1])
        last_ts == find_iso(blocks[Len(blocks)])
    IN IF Len(blocks) < 3 THEN "ValueError"
       ELSE IF first_ts = <<>> \/ last_ts = <<>> THEN "ValueError"
       ELSE IF parse_iso_raises(first_ts[1]) \/ parse_iso_raises(last_ts[Len(last_ts)])
       THEN "ValueError"
       ELSE "None"

\* lines 93-95: the run window of a text that raises nothing
window(t) ==
    LET blocks == split_blocks(t)
        run_start == parse_iso(find_iso(blocks[1])[1])
        last_ts == find_iso(blocks[Len(blocks)])
        run_end == parse_iso(last_ts[Len(last_ts)])
    IN [run_start |-> run_start, run_end |-> run_end,
        run_duration_s |-> total_seconds(run_start, run_end)]

\* parse_batch_log, lines 80-100, fails: the exception leaves main (the call
\* has made no list of records)
ParseBegin_Raise ==
    /\ pc = "read"
    /\ window_exc(text) # "None"
    /\ exc' = window_exc(text)
    /\ pc' = "failed"
    /\ run' = NoRun
    /\ http_count' = 0
    /\ entries' = <<>>
    /\ k' = 0
    /\ UNCHANGED <<dir, inputs, i, call>>
    /\ UNCHANGED main_vars

\* parse_batch_log, lines 80-100
ParseBegin ==
    /\ pc = "read"
    /\ window_exc(text) = "None"
    /\ run' = window(text)
    /\ http_count' = 0
    /\ entries' = <<>>
    /\ k' = 1
    /\ pc' = "loop"
    /\ UNCHANGED <<dir, inputs, i, exc, call>>
    /\ UNCHANGED main_vars

\* lines 102-104: a section that does not start with the marker
SkipSection ==
    /\ pc = "loop"
    /\ k <= Len(sections)
    /\ ~starts_with_marker(sections[k])
    /\ k' = k + 1
    /\ UNCHANGED <<pc, dir, inputs, i, exc, call, run, http_count, entries>>
    /\ UNCHANGED main_vars

\* lines 102-182: a section becomes a record
ParseSection ==
    /\ pc = "loop"
    /\ k <= Len(sections)
    /\ starts_with_marker(sections[k])
    /\ LET r == parse_section(sections[k], dir, http_count)
       IN /\ r.exc = "None"
          /\ entries' = entries \o r.entry
          /\ http_count' = r.http_count
    /\ k' = k + 1
    /\ UNCHANGED <<pc, dir, inputs, i, exc, call, run>>
    /\ UNCHANGED main_vars

\* lines 102-182: an exception in a section leaves parse_batch_log and main
ParseSection_Raise ==
    /\ pc = "loop"
    /\ k <= Len(sections)
    /\ starts_with_marker(sections[k])
    /\ LET r == parse_section(sections[k], dir, http_count)
       IN /\ r.exc # "None"
          /\ exc' = r.exc
    /\ pc' = "failed"
    /\ UNCHANGED <<dir, inputs, i, call>>
    /\ UNCHANGED parse_vars
    /\ UNCHANGED main_vars

\* the dictionary parse_batch_log returns (lines 184-189)
batch_run(r, es) ==
    [run_start |-> isoformat(r.run_start),
     run_end |-> isoformat(r.run_end),
     run_duration_seconds |-> r.run_duration_s,
     entries |-> es]

\* lines 184-189 and main, line 366
ParseReturn ==
    /\ pc = "loop"
    /\ k > Len(sections)
    /\ working_summary' = <<batch_run(run, entries)>>
    /\ runs' = Append(runs, [run_start |-> run.run_start, run_end |-> run.run_end,
                             run_duration_seconds |-> run.run_duration_s,
                             n_entries |-> Len(entries), entries |-> entries])
    /\ pc' = "aggregate"
    /\ UNCHANGED <<dir, inputs, i, exc, call>>
    /\ UNCHANGED parse_vars
    /\ UNCHANGED <<earliest, latest, total_duration, overall_summary>>

\* aggregate with the duration taken from the overall window
aggregate_window(e, l, total, ws) ==
    LET first == IF e = <<>> THEN parse_iso(ws.run_start)
                 ELSE MinOf({e[1], parse_iso(ws.run_start)})
        last == IF l = <<>> THEN parse_iso(ws.run_end)
                ELSE MaxOf({l[1], parse_iso(ws.run_end)})
    IN [earliest |-> first, latest |-> last, total_duration |-> last - first]

\* aggregate that trusts the order of the inputs: the start of the first
\* summary, the end of the last
aggregate_in_order(e, l, total, ws) ==
    [earliest |-> IF e = <<>> THEN parse_iso(ws.run_start) ELSE e[1],
     latest |-> parse_iso(ws.run_end),
     total_duration |-> total + ws.run_duration_seconds]

\* main, lines 369-377: earliest, latest, total_duration after summary ws
aggregate(e, l, total, ws) ==
    [earliest |-> IF e = <<>> THEN parse_iso(ws.run_start)
                  ELSE MinOf({e[1], parse_iso(ws.run_start)}),
     latest |-> IF l = <<>> THEN parse_iso(ws.run_end)
                ELSE MaxOf({l[1], parse_iso(ws.run_end)}),
     total_duration |-> total + ws.run_duration_seconds]

\* main, lines 368-385
Aggregate ==
    /\ pc = "aggregate"
    /\ LET a == aggregate(earliest, latest, total_duration, working_summary[1])
       IN /\ earliest' = <<a.earliest>>
          /\ latest' = <<a.latest>>
          /\ total_duration' = a.total_duration
          /\ overall_summary' =
               [general_stats |-> [run_start |-> <<isoformat(a.earliest)>>,
                                   run_end |-> <<isoformat(a.latest)>>,
                                   run_duration_seconds |-> a.total_duration],
                entries |-> overall_summary.entries \o working_summary[1].entries]
    /\ i' = i + 1
    /\ pc' = IF i + 1 < Len(inputs) THEN "read" ELSE "stats"
    /\ UNCHANGED <<dir, inputs, exc, call, working_summary, runs>>
    /\ UNCHANGED parse_vars

\* main, line 387: get_general_stats, whose insert changes the list of
\* overall_summary too; lines 389-392 write the result
GeneralStats ==
    /\ pc = "stats"
    /\ overall_summary' = get_general_stats(overall_summary)
    /\ pc' = "done"
    /\ UNCHANGED <<dir, inputs, i, exc, call, working_summary, earliest, latest,
                   total_duration, runs>>
    /\ UNCHANGED parse_vars

Next ==
    \/ NoInputs
    \/ StartLoop
    \/ ParseBegin_Raise
    \/ ParseBegin
    \/ SkipSection
    \/ ParseSection
    \/ ParseSection_Raise
    \/ ParseReturn
    \/ Aggregate
    \/ GeneralStats

Spec == Init /\ [][Next]_vars

(***************************************************************************)
(* What the claims speak of, said without the parser's own operators.      *)
(***************************************************************************)
\* the j-th smallest element of a set of numbers
Nth(S, j) == CHOOSE x \in S : Cardinality({y \in S : y < x}) = j - 1

\* the lines of the text in progress that begin with "Executing: "
ExecIndexes == {m \in 1..Len(text) : text[m].k = "exec"}

\* the j-th section that begins with the marker: from its line to the line
\* before the next marker (or to the end of the text)
NthSection(j) ==
    LET from == Nth(ExecIndexes, j)
        to == IF j < Cardinality(ExecIndexes) THEN Nth(ExecIndexes, j + 1) - 1 ELSE Len(text)
    IN SubSeq(text, from, to)

\* parse_batch_log has a text and a list of records (in progress, returned or
\* abandoned on an exception)
InParse == pc \in {"loop", "aggregate", "failed"}
\* parse_batch_log has ended: it returned or it raised
ParseEnded == pc \in {"aggregate", "failed"}

\* the strings ISO_RE matches in a block
StampsOf(block) == UNION {Range(block[m].ts) : m \in 1..Len(block)}

\* the text has at least three blank-line-delimited blocks and timestamps, all
\* of them readable, in the first and in the last
StructurallyValid ==
    LET blocks == split_blocks(text)
        first == StampsOf(blocks[1])
        last == StampsOf(blocks[Len(blocks)])
    IN /\ Len(blocks) >= 3
       /\ first # {} /\ last # {}
       /\ \A ts \in first \cup last : ts.frac # "bad"

\* the name after the flag -f on the section's execution line (<<>>: none)
FileNameOf(sec) ==
    LET toks == sec[1].tokens
    IN IF \E m \in 1..(Len(toks) - 1) : toks[m].t = "flag" /\ toks[m + 1].t = "path"
       THEN LET m == MinOf({x \in 1..(Len(toks) - 1) : toks[x].t = "flag" /\ toks[x + 1].t = "path"})
            IN <<toks[m + 1].path[Len(toks[m + 1].path)]>>
       ELSE <<>>

\* the record e comes from the section sec: its name and its timestamps
DerivedFrom(e, sec) ==
    /\ e.query_name = FileNameOf(sec)
    /\ (e.start = <<>>) = (\A m \in 1..Len(sec) : sec[m].k # "start")
    /\ (e.end = <<>>) = (\A m \in 1..Len(sec) : sec[m].k # "end")

\* the section holds, between its start and its end timestamp line, an
\* "Output:" payload that decodes to an object with a bindings list of n rows
\* (and no other payload or brace)
ValidPayload(sec, n) ==
    \E s, o, e \in 1..Len(sec) :
        /\ s < o /\ o < e
        /\ sec[s].k = "start" /\ \A m \in 1..(s - 1) : sec[m].k # "start"
        /\ sec[e].k = "end" /\ \A m \in 1..(e - 1) : sec[m].k # "end"
        /\ sec[o].k = "output" /\ sec[o].p = Bindings(n)
        /\ \A m \in (s + 1)..(e - 1) : m # o => (sec[m].k \notin {"output", "close"})

\* no line of the section is an "Output:" payload that decodes to an object
\* with a bindings list
NoValidPayload(sec) ==
    \A m \in 1..Len(sec) : ~(sec[m].k = "output" /\ sec[m].p.json /\ sec[m].p.list)

\* the section names a query file, and neither <query>.log nor
\* <query>.log.zip lies beside the batch log
NoAuxLog(sec) ==
    /\ FileNameOf(sec) # <<>>
    /\ (FileNameOf(sec)[1] \o ".log") \notin DOMAIN dir
    /\ (FileNameOf(sec)[1] \o ".log.zip") \notin DOMAIN dir

(***************************************************************************)
(* The claims about parse_batch_log and main, under Spec.                  *)
(***************************************************************************)
\* C1: of a structurally valid batch log with N sections that begin with
\* "Executing: ", parse_batch_log returns exactly N records, the j-th one
\* derived from the j-th such section.
C1_ReturnsOneEntryPerSection ==
    (ParseEnded /\ StructurallyValid) =>
        /\ pc = "aggregate"
        /\ Len(entries) = Cardinality(ExecIndexes)
        /\ \A j \in 1..Len(entries) : DerivedFrom(entries[j], NthSection(j))

\* C1, what the code does keep: whenever parse_batch_log returns, it returns
\* one record per marker section, in section order.
C1_WhenItReturns ==
    pc = "aggregate" =>
        /\ Len(entries) = Cardinality(ExecIndexes)
        /\ \A j \in 1..Len(entries) : DerivedFrom(entries[j], NthSection(j))

\* C2: the log of a session without query sections (the run header and the
\* run footer of execute_queries, nothing between) parses to a BatchRun with
\* no records; parse_batch_log does not fail on it.
C2_EmptySessionParses ==
    (ParseEnded /\ \E t0, t1 \in {Stamp(0, "none"), Stamp(3, "none")} :
                      inputs[i + 1] = Header(t0) \o Footer(t1))
        => (pc = "aggregate" /\ entries = <<>>)

\* C3: a record of a section that holds, between its timestamps, a payload
\* with a bindings list of n rows has produced_results true and results_count
\* n; with n = 0 its error is 'None'.
C3_BindingsListCounts ==
    InParse =>
        \A j \in 1..Len(entries) : \A n \in 0..2 :
            ValidPayload(NthSection(j), n) =>
                /\ entries[j].produced_results = TRUE
                /\ entries[j].results_count = n
                /\ entries[j].error = <<"None">>

C3_Witness ==
    /\ pc = "aggregate"
    /\ \E j \in 1..Len(entries) :
         /\ ValidPayload(NthSection(j), 0)
         /\ entries[j].produced_results
         /\ entries[j].results_count = 0

\* C4: every record has error 'None' and results_count >= 0 when
\* produced_results is true, and results_count 0 when it is false.
C4_RecordInvariant ==
    \A j \in 1..Len(entries) :
        /\ entries[j].produced_results =>
             (entries[j].error = <<"None">> /\ entries[j].results_count >= 0)
        /\ ~entries[j].produced_results => entries[j].results_count = 0

\* a record with results whose auxiliary log holds an error pattern
C4_Witness ==
    /\ pc = "aggregate"
    /\ dir = DirPlain
    /\ \E j \in 1..Len(entries) :
         /\ entries[j].produced_results
         /\ entries[j].results_count = 2
         /\ entries[j].query_name = <<"q1.rq">>
         /\ entries[j].http_requests = 3

\* C5: every record without results carries an error classification of the
\* closed set: never null, never the empty string.
C5_ErrorNeverAbsent ==
    \A j \in 1..Len(entries) :
        ~entries[j].produced_results =>
            (entries[j].error # PyNone /\ entries[j].error # <<>>)

\* C6: a record of a section without a valid inline payload and without an
\* auxiliary log has the error 'Unknown Error', with or without an "Error
\* executing command for" line.
C6_UnknownWithoutAuxLog ==
    InParse =>
        \A j \in 1..Len(entries) :
            (NoValidPayload(NthSection(j)) /\ NoAuxLog(NthSection(j)))
                => entries[j].error = <<"Unknown", "Error">>

\* C7: a record of a section without a valid inline payload and without an
\* auxiliary log has http_requests 0 (or null), wherever the section stands.
C7_NoRequestsWithoutAuxLog ==
    InParse =>
        \A j \in 1..Len(entries) :
            (NoValidPayload(NthSection(j)) /\ NoAuxLog(NthSection(j)))
                => entries[j].http_requests = 0

\* C10: the run duration of the summary, in general_stats and in the general
\* row, is the sum of the durations of the batch runs.
C10_DurationIsSum ==
    pc = "done" =>
        LET total == SumSeq([j \in 1..Len(runs) |-> runs[j].run_duration_seconds])
        IN /\ overall_summary.general_stats.run_duration_seconds = total
           /\ overall_summary.entries[1].duration_seconds = <<total>>

\* two runs whose durations do not add up to latest end - earliest start
C10_Witness ==
    /\ pc = "done"
    /\ Len(runs) = 2
    /\ overall_summary.general_stats.run_duration_seconds # latest[1] - earliest[1]
    /\ overall_summary.general_stats.run_duration_seconds
         = runs[1].run_duration_seconds + runs[2].run_duration_seconds

\* the records of all batch runs returned so far, run by run
RealRecords == Concat([j \in 1..Len(runs) |-> runs[j].entries])

\* the number of lines of a batch log that begin with "Executing: "
ExecCount(t) == Cardinality({m \in 1..Len(t) : t[m].k = "exec"})

\* C11: in the summary main produces, the general row's produced_results is
\* the number of real records with produced_results true, its results_count
\* the number of real records with results_count > 0, and its error the
\* number of real records with produced_results false.
C11_GeneralRowCounts ==
    pc = "done" =>
        LET g == overall_summary.entries[1]
            real == RealRecords
        IN /\ g.produced_results
                = Cardinality({j \in 1..Len(real) : real[j].produced_results = TRUE})
           /\ g.results_count = Cardinality({j \in 1..Len(real) : real[j].results_count > 0})
           /\ g.error = Cardinality({j \in 1..Len(real) : real[j].produced_results = FALSE})

\* a summary of two batch logs with a record that produced an empty result
\* set and a record with an error: the three counts differ
C11_Witness ==
    /\ pc = "done"
    /\ Len(runs) = 2
    /\ overall_summary.entries[1].produced_results > overall_summary.entries[1].results_count
    /\ overall_summary.entries[1].results_count > 0
    /\ overall_summary.entries[1].error > 0

\* C12: the final entries are one general row at index 0 followed by all N
\* real records, batch by batch in processing order and in section order
\* within each batch: N + 1 rows, N the number of query sections of all logs.
C12_GeneralRowThenRecords ==
    pc = "done" =>
        LET es == overall_summary.entries
            N == SumSeq([j \in 1..Len(inputs) |-> ExecCount(inputs[j])])
        IN /\ Len(es) = N + 1
           /\ is_general_row(es[1])
           /\ \A j \in 2..Len(es) : ~is_general_row(es[j])
           /\ Tail(es) = RealRecords

\* two batch logs, each with records
C12_Witness ==
    /\ pc = "done"
    /\ Len(runs) = 2
    /\ runs[1].n_entries > 0
    /\ runs[2].n_entries > 0
    /\ runs[1].entries # runs[2].entries
    /\ Len(overall_summary.entries) = runs[1].n_entries + runs[2].n_entries + 1

\* C14: every BatchRun parse_batch_log returned has run_end >= run_start and
\* run_duration_seconds = run_end - run_start, which is then not negative.
C14_RunWindowOrdered ==
    \A j \in 1..Len(runs) :
        /\ runs[j].run_end >= runs[j].run_start
        /\ runs[j].run_duration_seconds = runs[j].run_end - runs[j].run_start
        /\ runs[j].run_duration_seconds >= 0

\* C14, what the code does keep: the duration is the difference.
C14_DurationIsDifference ==
    \A j \in 1..Len(runs) :
        runs[j].run_duration_seconds = runs[j].run_end - runs[j].run_start

\* the section names no query file, or its auxiliary archive holds several
\* files: what the section needs from outside is not there
SectionCannotBeRead(sec) ==
    \/ FileNameOf(sec) = <<>>
    \/ /\ (FileNameOf(sec)[1] \o ".log") \notin DOMAIN dir
       /\ (FileNameOf(sec)[1] \o ".log.zip") \in DOMAIN dir
       /\ Cardinality({m \in 1..Len(dir[FileNameOf(sec)[1] \o ".log.zip"].members) :
               dir[FileNameOf(sec)[1] \o ".log.zip"].members[m].name # "logs/"}) > 1

\* C15: a failure in one query section does not end parse_batch_log: the
\* call fails on its text as a whole only (before any section is read), and
\* what it returns has a record for every section, with the classification
\* 'unknown' for a section that could not be read.
C15_SectionFailureIsolated ==
    /\ (pc = "failed") => (k = 0 /\ ~StructurallyValid)
    /\ (pc = "aggregate") =>
          /\ Len(entries) = Cardinality(ExecIndexes)
          /\ \A j \in 1..Len(entries) :
                (SectionCannotBeRead(NthSection(j)) /\ NoValidPayload(NthSection(j)))
                    => entries[j].error \in {<<"unknown">>, <<"Unknown", "Error">>}

\* the text has fewer than three blank-line-delimited blocks, or no timestamp
\* in its first block, or none in its last
Malformed ==
    LET blocks == split_blocks(text)
    IN \/ Len(blocks) < 3
       \/ StampsOf(blocks[1]) = {}
       \/ StampsOf(blocks[Len(blocks)]) = {}

\* C16: on a text of fewer than three blocks, or without a timestamp in the
\* first or in the last block, parse_batch_log raises (the exception leaves
\* main too) and returns no BatchRun: no record, no run window.
C16_MalformedLogRaises ==
    (InParse /\ Malformed) =>
        /\ pc = "failed"
        /\ exc = "ValueError"
        /\ entries = <<>>
        /\ Len(runs) = i
        /\ Len(overall_summary.entries) = SumSeq([j \in 1..Len(runs) |-> runs[j].n_entries])

\* a log of two blocks, each with a timestamp
C16_Witness ==
    /\ pc = "failed"
    /\ exc = "ValueError"
    /\ Len(split_blocks(text)) = 2
    /\ StampsOf(split_blocks(text)[1]) # {}
    /\ StampsOf(split_blocks(text)[2]) # {}
    /\ runs = <<>>

\* a second log with three blocks and no timestamp in its last block, after
\* a first log that parsed
C16_WitnessNoStamp ==
    /\ pc = "failed"
    /\ exc = "ValueError"
    /\ i = 1
    /\ Len(runs) = 1
    /\ Len(split_blocks(text)) >= 3
    /\ StampsOf(split_blocks(text)[1]) # {}
    /\ StampsOf(split_blocks(text)[Len(split_blocks(text))]) = {}

\* the record the section gets when it is the first section of a batch log
\* beside the same files
RecordAtHead(sec) == parse_section(sec, dir, 0).entry

\* C18: a record depends on its own section and its own auxiliary log only:
\* whatever sections precede it, the record is the one the same section gets
\* at the head of a batch log (the same http_requests in particular).
C18_RecordDependsOnSectionOnly ==
    InParse =>
        \A j \in 1..Len(entries) :
            /\ <<entries[j]>> = RecordAtHead(NthSection(j))
            /\ \A r \in Range(RecordAtHead(NthSection(j))) :
                  entries[j].http_requests = r.http_requests

\* the section names a query file and <query>.log or <query>.log.zip lies
\* beside the batch log
HasAuxLog(sec) ==
    /\ FileNameOf(sec) # <<>>
    /\ \/ (FileNameOf(sec)[1] \o ".log") \in DOMAIN dir
       \/ (FileNameOf(sec)[1] \o ".log.zip") \in DOMAIN dir

\* the lines of that log: of <query>.log, else of the files of
\* <query>.log.zip
AuxLinesOf(sec) ==
    LET log == FileNameOf(sec)[1] \o ".log"
        zipped == FileNameOf(sec)[1] \o ".log.zip"
    IN IF log \in DOMAIN dir THEN dir[log].lines
       ELSE Concat([m \in 1..Len(dir[zipped].members) |-> dir[zipped].members[m].lines])

\* the lines that hold "INFO: Requesting"
RequestCount(lines) ==
    Cardinality({m \in 1..Len(lines) :
        \E x \in 1..(Len(lines[m]) - 1) :
            lines[m][x] = "INFO:" /\ lines[m][x + 1] = "Requesting"})

\* C22: the record of a section whose auxiliary log exists has for
\* http_requests the number of lines of that log that hold "INFO: Requesting",
\* with and without results, lines after the first error counted too.
C22_RequestsCountedFromAuxLog ==
    InParse =>
        \A j \in 1..Len(entries) :
            HasAuxLog(NthSection(j)) =>
                entries[j].http_requests = RequestCount(AuxLinesOf(NthSection(j)))

\* C22, what the code does keep: the count is that of the log when the
\* section has results or an "Error executing command for" line.
C22_WhenLogIsRead ==
    InParse =>
        \A j \in 1..Len(entries) :
            (HasAuxLog(NthSection(j))
                /\ (entries[j].produced_results
                     \/ \E m \in 1..Len(NthSection(j)) : NthSection(j)[m].k = "error")) =>
                entries[j].http_requests = RequestCount(AuxLinesOf(NthSection(j)))

\* C23: the overall run_start is the least run_start of the batch logs
\* aggregated and the overall run_end their greatest run_end, in whatever
\* order the logs were processed.
C23_WindowIsMinMax ==
    (pc \in {"read", "loop", "failed", "stats", "done"} /\ runs # <<>>) =>
        LET first == MinOf({runs[j].run_start : j \in 1..Len(runs)})
            last == MaxOf({runs[j].run_end : j \in 1..Len(runs)})
        IN /\ earliest = <<first>>
           /\ latest = <<last>>
           /\ parse_iso(overall_summary.general_stats.run_start[1]) = first
           /\ parse_iso(overall_summary.general_stats.run_end[1]) = last
           /\ pc = "done" =>
                /\ parse_iso(overall_summary.entries[1].start[1]) = first
                /\ parse_iso(overall_summary.entries[1].end[1]) = last

\* two batch logs, the second of which began before the first and ended
\* before it
C23_Witness ==
    /\ pc = "done"
    /\ Len(runs) = 2
    /\ runs[2].run_start < runs[1].run_start
    /\ runs[2].run_end < runs[1].run_end
    /\ earliest = <<runs[2].run_start>>
    /\ latest = <<runs[1].run_end>>

\* the section has a well-formed "Output:" payload with a bindings list
HasBindingsPayload(sec) ==
    \E m \in 1..Len(sec) : sec[m].k = "output" /\ sec[m].p.json /\ sec[m].p.list

\* the lines of the section strictly between its first start timestamp line
\* and its first end timestamp line (none when one of them is missing)
Between(sec) ==
    {m \in 1..Len(sec) :
        /\ \E x \in 1..(m - 1) : sec[x].k = "start"
        /\ \E y \in (m + 1)..Len(sec) : sec[y].k = "end"
        /\ \A y \in 1..m : sec[y].k # "end"}

\* C24: the payload is searched only strictly between the start and the end
\* timestamp lines: a record of a section without a start or without an end
\* timestamp line, or whose payload lies outside them, never has
\* produced_results true.
C24_PayloadOnlyBetweenStamps ==
    InParse =>
        \A j \in 1..Len(entries) :
            (\A m \in Between(NthSection(j)) : NthSection(j)[m].k # "output") =>
                /\ entries[j].produced_results = FALSE
                /\ entries[j].results_count = 0

\* a record of a section that has a bindings payload and no start timestamp
\* line
C24_Witness ==
    /\ pc = "aggregate"
    /\ \E j \in 1..Len(entries) :
         /\ HasBindingsPayload(NthSection(j))
         /\ \A m \in 1..Len(NthSection(j)) : NthSection(j)[m].k # "start"
         /\ entries[j].start = <<>>
         /\ entries[j].produced_results = FALSE

\* a record of a section that has a bindings payload and no end timestamp
\* line
C24_WitnessNoEnd ==
    /\ pc = "aggregate"
    /\ \E j \in 1..Len(entries) :
         /\ HasBindingsPayload(NthSection(j))
         /\ \A m \in 1..Len(NthSection(j)) : NthSection(j)[m].k # "end"
         /\ entries[j].produced_results = FALSE

\* between its timestamp lines the section has a payload that does not
\* decode (cut short, or followed by text with a brace) or that decodes to an
\* object without a bindings list
BadPayload(sec) ==
    \E m \in Between(sec) :
        /\ sec[m].k = "output" /\ sec[m].p.open
        /\ \/ ~sec[m].p.json
           \/ ~sec[m].p.list
           \/ \E x \in Between(sec) : x > m /\ sec[x].k = "close"

\* the section with its payload lines turned into plain text
WithoutPayload(sec) ==
    [m \in 1..Len(sec) |-> IF sec[m].k \in {"output", "close"} THEN TextLine ELSE sec[m]]

\* C25: a payload that does not decode, or whose bindings are no list, raises
\* nothing: the step of the loop on such a section does what it would do on
\* the section without the payload (the same record, with produced_results
\* false and results_count 0, or the same failure for another reason), and
\* the loop goes on to the next section.
C25_BadPayloadIsNoPayload ==
    [][(pc = "loop" /\ k <= Len(sections) /\ starts_with_marker(sections[k])
            /\ BadPayload(sections[k])) =>
        LET r == parse_section(WithoutPayload(sections[k]), dir, http_count)
        IN IF r.exc = "None"
           THEN /\ pc' = "loop"
                /\ k' = k + 1
                /\ entries' = entries \o r.entry
                /\ entries'[Len(entries')].produced_results = FALSE
                /\ entries'[Len(entries')].results_count = 0
           ELSE /\ pc' = "failed"
                /\ exc' = r.exc
                /\ \E m \in 1..Len(sections[k]) : sections[k][m].k \in {"error", "start", "end"}
      ]_vars

\* a section with a payload cut short was recorded and the section after it
\* was parsed
C25_Witness ==
    /\ pc = "aggregate"
    /\ Len(entries) = 2
    /\ BadPayload(NthSection(1))
    /\ \E m \in 1..Len(NthSection(1)) :
         NthSection(1)[m].k = "output" /\ NthSection(1)[m].p = Truncated
    /\ entries[1].produced_results = FALSE
    /\ entries[1].results_count = 0
    /\ entries[2].produced_results = TRUE

(***************************************************************************)
(* getLogDataFromFileOrZipped on its own: one call on any small auxiliary  *)
(* log, line by line.                                                      *)
(***************************************************************************)
BothLine ==
    <<"fetch", "failed:", "fetch", "failed", "-", "FATAL", "ERROR:", "Reached", "heap",
      "limit", "Allocation", "failed">>
ClientLine ==
    <<"INFO:", "Requesting", "http://a", "DEBUG:", "Server", "reported", "client-side", "error">>
ServerLine == <<"DEBUG:", "Server-side", "error", "encountered">>
BracketLine == <<"at", "[native]">>
AnsiLine == <<"ESC[0m">>

AuxLineSet ==
    { <<>>, ReqLine, FetchLine, BothLine, ClientLine, ServerLine, KilledLine,
      BracketLine, AnsiLine }

AuxFiles ==
    {PlainFile(ls) : ls \in SeqsUpTo(AuxLineSet, MaxAuxLines)}
    \cup {ZipFile(<<Member("logs/", <<>>)>> \o ms) :
            ms \in SeqsUpTo({Member("q.log", <<l>>) : l \in {ReqLine, BothLine}}, 2)}

AuxInit ==
    /\ pc = "call"
    /\ dir = <<>>
    /\ inputs = <<>>
    /\ \E f \in AuxFiles, h \in BOOLEAN :
         call = [fn |-> "getLogDataFromFileOrZipped", file |-> f, has_error |-> h,
                 at |-> "open", seen |-> <<>>, rest |-> <<>>, st |-> NoLines,
                 result |-> LogData("None", 0, PyNone)]
    /\ Fresh

main_all == <<pc, dir, inputs, i, k, run, http_count, entries, working_summary,
              earliest, latest, total_duration, overall_summary, runs, exc>>

\* lines 280-299: the file is opened
AuxOpen ==
    /\ call.fn = "getLogDataFromFileOrZipped"
    /\ call.at = "open"
    /\ open_log(call.file).exc = "None"
    /\ call' = [call EXCEPT !.at = "lines", !.rest = open_log(call.file).lines]
    /\ UNCHANGED main_all

\* lines 286-291: the archive has no file, or several
AuxOpen_Raise ==
    /\ call.fn = "getLogDataFromFileOrZipped"
    /\ call.at = "open"
    /\ open_log(call.file).exc # "None"
    /\ call' = [call EXCEPT !.at = "raised",
                            !.result = getLogDataFromFileOrZipped(call.file, call.has_error)]
    /\ UNCHANGED main_all

\* lines 269-278: one turn of the loop of process_lines
AuxLine ==
    /\ call.fn = "getLogDataFromFileOrZipped"
    /\ call.at = "lines"
    /\ call.rest # <<>>
    /\ call' = [call EXCEPT !.st = process_lines(<<Head(call.rest)>>, call.has_error, call.st),
                            !.seen = Append(call.seen, Head(call.rest)),
                            !.rest = Tail(call.rest)]
    /\ UNCHANGED main_all

\* lines 301-314
AuxReturn ==
    /\ call.fn = "getLogDataFromFileOrZipped"
    /\ call.at = "lines"
    /\ call.rest = <<>>
    /\ call' = [call EXCEPT !.at = "returned",
                            !.result = getLogDataFromFileOrZipped(call.file, call.has_error)]
    /\ UNCHANGED main_all

AuxNext ==
    \/ AuxOpen
    \/ AuxOpen_Raise
    \/ AuxLine
    \/ AuxReturn

SpecAux == AuxInit /\ [][AuxNext]_vars

\* the patterns of ERROR_PATTERNS a line holds, by their place in the list
PatternsIn(line) == {q \in 1..Len(ERROR_PATTERNS) : IsInfix(ERROR_PATTERNS[q], line)}

\* the lines read so far that hold a pattern
Matching(lines) == {m \in 1..Len(lines) : PatternsIn(lines[m]) # {}}

\* the earliest-listed pattern of the first line that holds any
FirstLineLowest(lines) ==
    LET line == lines[MinOf(Matching(lines))]
    IN ERROR_PATTERNS[CHOOSE q \in PatternsIn(line) : \A r \in PatternsIn(line) : q <= r]

PatternsInText(lines) == UNION {PatternsIn(lines[m]) : m \in 1..Len(lines)}

\* C19: the error recorded is decided by the order of ERROR_PATTERNS over the
\* whole auxiliary log: of the patterns that occur on any line, the one
\* listed first is the error, also when a later-listed one occurs on an
\* earlier line.
C19_ListOrderOverFullText ==
    (call.fn = "getLogDataFromFileOrZipped" /\ call.has_error /\ call.at = "returned"
        /\ PatternsInText(call.seen) # {}
        /\ call.seen[Len(call.seen)] # <<>>) =>
        call.result.error = ERROR_PATTERNS[MinOf(PatternsInText(call.seen))]

\* C19, what the code does keep: the error is a pattern of the first line
\* that holds one (the earliest-listed of that line).
C19_FirstMatchingLine ==
    (call.fn = "getLogDataFromFileOrZipped" /\ call.has_error /\ call.at = "returned"
        /\ PatternsInText(call.seen) # {}
        /\ call.seen[Len(call.seen)] # <<>>) =>
        call.result.error = FirstLineLowest(call.seen)

\* C20: with has_error, when a line of the log holds a recognized pattern the
\* call returns a recognized pattern as the error, whatever lines follow
\* (blank lines at the end too); the last line is the error only when no
\* line holds a pattern.
C20_PatternBeatsLastLine ==
    (call.fn = "getLogDataFromFileOrZipped" /\ call.has_error /\ call.at = "returned") =>
        /\ Matching(call.seen) # {} => call.result.error \in Range(ERROR_PATTERNS)
        /\ (call.seen # <<>> /\ call.result.error = strip_ansi(call.seen[Len(call.seen)])
                /\ call.result.error \notin Range(ERROR_PATTERNS))
              => Matching(call.seen) = {}

\* C20, what the code does keep: a pattern found is returned unless the last
\* line is empty.
C20_UnlessLastLineEmpty ==
    (call.fn = "getLogDataFromFileOrZipped" /\ call.has_error /\ call.at = "returned"
        /\ Matching(call.seen) # {} /\ call.seen[Len(call.seen)] # <<>>) =>
        call.result.error \in Range(ERROR_PATTERNS)

\* the last line read that is not empty (there is one)
LastNonEmpty(lines) == lines[MaxOf({m \in 1..Len(lines) : lines[m] # <<>>})]

\* what the claim names as the fallback: the line without its ANSI sequences,
\* or 'Unknown Error' when a bracket is left in it
FallbackOf(line) ==
    LET cleaned == strip_ansi(line)
    IN IF \E m \in 1..Len(cleaned) : cleaned[m] \in BracketWords
       THEN <<"Unknown", "Error">> ELSE cleaned

\* C21: with has_error, when no line of the log holds a recognized pattern the
\* error is the last non-empty line of the log without its ANSI sequences, or
\* 'Unknown Error' when that cleaned line holds a "["; blank lines at the end
\* of the log are skipped.
C21_FallbackIsLastNonEmptyLine ==
    (call.fn = "getLogDataFromFileOrZipped" /\ call.has_error /\ call.at = "returned"
        /\ Matching(call.seen) = {}
        /\ \E m \in 1..Len(call.seen) : call.seen[m] # <<>>) =>
        call.result.error = FallbackOf(LastNonEmpty(call.seen))

\* C21, what the code does keep: the fallback is taken from the last line,
\* when that line is not empty.
C21_FallbackIsLastLine ==
    (call.fn = "getLogDataFromFileOrZipped" /\ call.has_error /\ call.at = "returned"
        /\ Matching(call.seen) = {}
        /\ call.seen # <<>> /\ call.seen[Len(call.seen)] # <<>>) =>
        call.result.error = FallbackOf(call.seen[Len(call.seen)])

(***************************************************************************)
(* The sources of an execution line on their own (lines 110-119).          *)
(***************************************************************************)
TokenSet ==
    { Word, FlagF, PathTok(<<"q1.rq">>), Url("a", FALSE, FALSE), Url("a", FALSE, TRUE),
      Url("b", FALSE, FALSE), Url("c", TRUE, FALSE) }

SrcInit ==
    /\ pc = "call"
    /\ dir = <<>>
    /\ inputs = <<>>
    /\ \E toks \in SeqsUpTo(TokenSet, MaxTokens) :
         call = [fn |-> "sources", exec_line |-> ExecLine(toks), at |-> "urls",
                 urls |-> <<>>, sources |-> <<>>]
    /\ Fresh

\* lines 111-113
SrcUrls ==
    /\ call.fn = "sources"
    /\ call.at = "urls"
    /\ call' = [call EXCEPT !.at = "dedup", !.urls = urls_of(call.exec_line)]
    /\ UNCHANGED main_all

\* lines 116-119: one turn of the loop
SrcDedup ==
    /\ call.fn = "sources"
    /\ call.at = "dedup"
    /\ call.urls # <<>>
    /\ call' = [call EXCEPT !.sources = dedup(<<Head(call.urls)>>, call.sources),
                            !.urls = Tail(call.urls)]
    /\ UNCHANGED main_all

\* the loop ends
SrcDone ==
    /\ call.fn = "sources"
    /\ call.at = "dedup"
    /\ call.urls = <<>>
    /\ call' = [call EXCEPT !.at = "done"]
    /\ UNCHANGED main_all

SrcNext ==
    \/ SrcUrls
    \/ SrcDedup
    \/ SrcDone

SpecSources == SrcInit /\ [][SrcNext]_vars

\* the URLs on the execution line before the flag -f, each without its
\* trailing "/", by the place of the token
UrlsBeforeFlag(exec_line) ==
    LET toks == exec_line.tokens
        flags == {m \in 1..Len(toks) : toks[m].t = "flag"}
        n == IF flags = {} THEN Len(toks) ELSE MinOf(flags) - 1
    IN [m \in {x \in 1..n : toks[x].t = "url"} |-> Url(toks[m].host, toks[m].dashf, FALSE)]

\* where a URL occurs first
FirstAt(found, u) == MinOf({m \in DOMAIN found : found[m] = u})

\* C9: the source list holds each URL found on the execution line before the
\* flag -f exactly once, in the order of the first occurrences.
C9_SourcesAreFirstOccurrences ==
    (call.fn = "sources" /\ call.at = "done") =>
        LET found == UrlsBeforeFlag(call.exec_line)
            src == call.sources
        IN /\ \A x, y \in 1..Len(src) : x # y => src[x] # src[y]
           /\ Range(src) = {found[m] : m \in DOMAIN found}
           /\ \A x, y \in 1..Len(src) :
                x < y => FirstAt(found, src[x]) < FirstAt(found, src[y])

\* C9, what the code does keep: no URL is listed twice.
C9_NoDuplicates ==
    (call.fn = "sources") =>
        \A x, y \in 1..Len(call.sources) : x # y => call.sources[x] # call.sources[y]

(***************************************************************************)
(* get_general_stats on its own: a summary of a few records, the call main *)
(* makes and a second call on the summary the first one left.              *)
(***************************************************************************)
\* records as parse_batch_log emits them: with results, with an empty result
\* set, with an error text, with no error text
StatRecords ==
    { make_entry(<<"q1.rq">>, <<>>, <<2>>, <<5>>, 3, TRUE, 2, PyNone),
      make_entry(<<"q1.rq">>, <<>>, <<2>>, <<5>>, 0, TRUE, 0, PyNone),
      make_entry(<<"q2.rq">>, <<>>, <<2>>, <<4>>, 1, FALSE, 0, <<"fetch", "failed">>),
      make_entry(<<"q2.rq">>, <<>>, <<2>>, <<>>, 0, FALSE, 0, PyNone) }

StatsInit ==
    /\ pc = "call"
    /\ dir = <<>>
    /\ inputs = <<>>
    /\ \E es \in SeqsUpTo(StatRecords, MaxRecords) :
         call = [fn |-> "get_general_stats",
                 summary |-> [general_stats |-> [run_start |-> <<isoformat(0)>>,
                                                 run_end |-> <<isoformat(6)>>,
                                                 run_duration_seconds |-> 6],
                              entries |-> es],
                 calls |-> 0,
                 real |-> es,
                 first |-> <<>>]
    /\ Fresh

\* get_general_stats(summary, input_dir): the list of summary has the general
\* row from now on
StatsCall ==
    /\ call.fn = "get_general_stats"
    /\ call.calls = 0
    /\ call' = [call EXCEPT !.summary = get_general_stats(call.summary),
                            !.first = <<general_row_of(call.summary)>>,
                            !.calls = 1]
    /\ UNCHANGED main_all

\* get_general_stats once more, on the summary the first call left
StatsRecompute ==
    /\ call.fn = "get_general_stats"
    /\ call.calls = 1
    /\ call' = [call EXCEPT !.summary = get_general_stats(call.summary),
                            !.calls = 2]
    /\ UNCHANGED main_all

StatsNext ==
    \/ StatsCall
    \/ StatsRecompute

SpecStats == StatsInit /\ [][StatsNext]_vars

\* C13: statistics recomputed over a summary that holds the general row are
\* those of the first computation (the same produced-results, positive-result
\* and error counts), and the summary holds one general row only.
C13_RecomputeIsStable ==
    (call.fn = "get_general_stats" /\ call.calls = 2) =>
        LET es == call.summary.entries
            g == es[1]
            f == call.first[1]
        IN /\ g.produced_results = f.produced_results
           /\ g.results_count = f.results_count
           /\ g.error = f.error
           /\ Cardinality({j \in 1..Len(es) : is_general_row(es[j])}) = 1
           /\ Len(es) = Len(call.real) + 1

(***************************************************************************)
(* _read_text_maybe_zipped on its own: one call on a plain file or on a    *)
(* small archive, with or without a member name.                           *)
(***************************************************************************)
\* the entries an archive may hold
ReadMembers ==
    { Member("logs/", <<>>),
      Member("q1.log", <<"q1">>),
      Member("notes.md", <<"notes", "0xFF">>),
      Member("run.txt", <<"run", "0xFF", "end">>),
      Member("OLD.TXT", <<"old">>) }

ReadFiles ==
    {ZipFile(ms) : ms \in SeqsUpTo(ReadMembers, MaxMembers)}
    \cup {PlainFile(<<"plain", "0xFF">>)}

ReadInit ==
    /\ pc = "call"
    /\ dir = <<>>
    /\ inputs = <<>>
    /\ \E f \in ReadFiles, m \in {<<>>, <<"run.txt">>} :
         call = [fn |-> "_read_text_maybe_zipped", file |-> f, member |-> m,
                 at |-> "call", result |-> ReadResult("None", <<>>)]
    /\ Fresh

\* lines 30-54: the text is returned
ReadReturn ==
    /\ call.fn = "_read_text_maybe_zipped"
    /\ call.at = "call"
    /\ read_text_maybe_zipped(call.file, call.member).exc = "None"
    /\ call' = [call EXCEPT !.at = "returned",
                            !.result = read_text_maybe_zipped(call.file, call.member)]
    /\ UNCHANGED main_all

\* lines 33-34, 42-48: FileNotFoundError or ValueError
ReadRaise ==
    /\ call.fn = "_read_text_maybe_zipped"
    /\ call.at = "call"
    /\ read_text_maybe_zipped(call.file, call.member).exc # "None"
    /\ call' = [call EXCEPT !.at = "raised",
                            !.result = read_text_maybe_zipped(call.file, call.member)]
    /\ UNCHANGED main_all

ReadNext ==
    \/ ReadReturn
    \/ ReadRaise

SpecRead == ReadInit /\ [][ReadNext]_vars

\* the entries of the archive that are no directories, by their place
FileEntries(file) == {j \in 1..Len(file.members) : file.members[j].name # "logs/"}

\* those of them whose name ends in ".txt", in any case of the letters
TextEntries(file) ==
    {j \in FileEntries(file) : file.members[j].name \in {"run.txt", "OLD.TXT"}}

\* the content of an entry, decoded as UTF-8 with replacement
DecodedEntry(file, j) ==
    [m \in 1..Len(file.members[j].lines) |->
        IF file.members[j].lines[m] = "0xFF" THEN "U+FFFD" ELSE file.members[j].lines[m]]

\* C17: called on an archive without a member name, _read_text_maybe_zipped
\* returns the decoded content of the only file of the archive when there is
\* exactly one, or of the only file whose name ends in ".txt" when there are
\* several files and exactly one such; in every other case it raises and
\* returns no text.
C17_OnlyCandidateIsRead ==
    (call.fn = "_read_text_maybe_zipped" /\ call.at # "call"
        /\ call.file.zip /\ call.member = <<>>) =>
        LET files == FileEntries(call.file)
            texts == TextEntries(call.file)
        IN IF Cardinality(files) = 1
           THEN /\ call.at = "returned"
                /\ \A j \in files : call.result.text = DecodedEntry(call.file, j)
           ELSE IF Cardinality(files) > 1 /\ Cardinality(texts) = 1
           THEN /\ call.at = "returned"
                /\ \A j \in texts : call.result.text = DecodedEntry(call.file, j)
           ELSE /\ call.at = "raised"
                /\ call.result.exc \in {"ValueError", "FileNotFoundError"}
                /\ call.result.text = <<>>

\* an archive of a directory entry and two files, one of them a text file
\* that holds bytes that are no UTF-8
C17_Witness ==
    /\ call.fn = "_read_text_maybe_zipped"
    /\ call.at = "returned"
    /\ call.file.zip
    /\ call.member = <<>>
    /\ Cardinality(FileEntries(call.file)) = 2
    /\ Len(call.file.members) = 3
    /\ call.result.text = <<"run", "U+FFFD", "end">>

\* an archive of two text files: the call raises
C17_WitnessAmbiguous ==
    /\ call.fn = "_read_text_maybe_zipped"
    /\ call.at = "raised"
    /\ call.member = <<>>
    /\ Cardinality(TextEntries(call.file)) = 2
    /\ call.result.exc = "ValueError"

(***************************************************************************)
(* interpret_results.py: normalize_query and the matching of a logged      *)
(* query with the corpus (sparql_endpoint_comunica, lines 227-244).  A     *)
(* text is a sequence of characters; "sp", "nl" and "tab" are white space. *)
(***************************************************************************)
\* what \s matches
IsWs(c) == c \in {"sp", "nl", "tab"}

RECURSIVE py_lstrip(_)
py_lstrip(q) == IF q # <<>> /\ IsWs(Head(q)) THEN py_lstrip(Tail(q)) ELSE q

RECURSIVE py_rstrip(_)
py_rstrip(q) ==
    IF q # <<>> /\ IsWs(q[Len(q)]) THEN py_rstrip(SubSeq(q, 1, Len(q) - 1)) ELSE q

\* str.strip()
py_strip(q) == py_rstrip(py_lstrip(q))

RECURSIVE collapse_ws(_)
\* re.sub(r'\s+', ' ', q): every run of white space becomes one blank
collapse_ws(q) ==
    IF q = <<>> THEN <<>>
    ELSE IF IsWs(Head(q))
    THEN <<"sp">> \o collapse_ws(py_lstrip(q))
    ELSE <<Head(q)>> \o collapse_ws(Tail(q))

\* normalize_query with the white space left as it is
normalize_query_strip_only(q) == py_strip(q)

\* normalize_query(query), lines 374-378
normalize_query(q) == collapse_ws(py_strip(q))

\* a corpus entry: {"query": ..., "id": ...}
CorpusItem(id, query) == [id |-> id, query |-> query]

\* lines 231-241 for one query: the id of the first item of all_queries_local
\* whose normalized text holds the search term, "" when there is none
match_of(select, corpus) ==
    LET search_term == normalize_query(py_strip(select))
        hits == {j \in 1..Len(corpus) :
                    IsInfix(search_term, normalize_query(corpus[j].query))}
    IN IF hits = {} THEN "" ELSE corpus[MinOf(hits)].id

\* the characters of the texts drawn freely
Chars == {"a", "b", "sp", "nl"}

\* the query files of the corpus
CorpusItems ==
    { CorpusItem("001_ns", <<"b", "sp", "a", "nl", "b">>),
      CorpusItem("002_ns", <<"a", "sp", "b">>),
      CorpusItem("003_ns", <<"nl", "a", "a", "sp", "sp", "b", "nl">>),
      CorpusItem("004_ns", <<>>) }

MatchInit ==
    /\ pc = "call"
    /\ dir = <<>>
    /\ inputs = <<>>
    /\ \E sel \in SeqsUpTo(Chars, MaxSelect), c \in SeqsUpTo(CorpusItems, MaxCorpus) :
         call = [fn |-> "match", select |-> sel, all_queries_local |-> c,
                 at |-> "search", seen |-> 0, match |-> ""]
    /\ Fresh

\* lines 234-235: the item does not hold the search term
MatchSkip ==
    /\ call.fn = "match"
    /\ call.at = "search"
    /\ call.seen < Len(call.all_queries_local)
    /\ ~IsInfix(normalize_query(py_strip(call.select)),
                normalize_query(call.all_queries_local[call.seen + 1].query))
    /\ call' = [call EXCEPT !.seen = call.seen + 1]
    /\ UNCHANGED main_all

\* lines 236-238: the item holds it, break
MatchFound ==
    /\ call.fn = "match"
    /\ call.at = "search"
    /\ call.seen < Len(call.all_queries_local)
    /\ IsInfix(normalize_query(py_strip(call.select)),
               normalize_query(call.all_queries_local[call.seen + 1].query))
    /\ call' = [call EXCEPT !.seen = call.seen + 1, !.at = "done",
                            !.match = call.all_queries_local[call.seen + 1].id]
    /\ UNCHANGED main_all

\* the loop ends without a match: match stays ""
MatchNone ==
    /\ call.fn = "match"
    /\ call.at = "search"
    /\ call.seen = Len(call.all_queries_local)
    /\ call' = [call EXCEPT !.at = "done"]
    /\ UNCHANGED main_all

MatchNext ==
    \/ MatchSkip
    \/ MatchFound
    \/ MatchNone

SpecMatch == MatchInit /\ [][MatchNext]_vars

\* the text with its white space normalized: the characters that are no
\* white space, and one blank for every run of white space between two of
\* them
Normalized(q) ==
    LET keep == {m \in 1..Len(q) :
                    \/ ~IsWs(q[m])
                    \/ /\ m < Len(q) /\ ~IsWs(q[m + 1])
                       /\ \E x \in 1..(m - 1) : ~IsWs(q[x])}
    IN [j \in 1..Cardinality(keep) |->
          IF IsWs(q[Nth(keep, j)]) THEN "sp" ELSE q[Nth(keep, j)]]

\* the text t holds the text s as a substring
Contains(t, s) ==
    \E from \in 0..(Len(t) - Len(s)) : SubSeq(t, from + 1, from + Len(s)) = s

\* the corpus entries, by their place, whose normalized text holds the
\* normalized core clause
Candidates(select, corpus) ==
    {j \in 1..Len(corpus) : Contains(Normalized(corpus[j].query), Normalized(select))}

\* C26: the match of a logged query is the id of the first corpus entry, in
\* the order of the corpus, whose white-space-normalized text holds the
\* white-space-normalized core clause as a substring, and the empty string
\* when no entry holds it.
C26_FirstContainingEntry ==
    (call.fn = "match" /\ call.at = "done") =>
        LET cands == Candidates(call.select, call.all_queries_local)
        IN /\ cands = {} => call.match = ""
           /\ cands # {} =>
                /\ call.match = call.all_queries_local[MinOf(cands)].id
                /\ call.seen = MinOf(cands)
           /\ call.match = match_of(call.select, call.all_queries_local)

\* the second entry is the first that holds the clause, and the clause is
\* written with other white space than the entry
C26_Witness ==
    /\ call.fn = "match"
    /\ call.at = "done"
    /\ Len(call.all_queries_local) = 2
    /\ call.match = call.all_queries_local[2].id
    /\ call.all_queries_local[1].id # call.all_queries_local[2].id
    /\ Normalized(call.select) # call.select
    /\ ~Contains(call.all_queries_local[2].query, call.select)

\* no entry holds the clause
C26_WitnessNoMatch ==
    /\ call.fn = "match"
    /\ call.at = "done"
    /\ Len(call.all_queries_local) = 2
    /\ call.match = ""

(***************************************************************************)
(* interpret_results.py: sparql_endpoint_comunica on the log of a SPARQL   *)
(* endpoint.  A line is [k, src, n]: its kind, the datasources it names    *)
(* and its place in the log.                                               *)
(*   "recv"       ... Received query query: ... # Datasources: s1 s2       *)
(*   "recv_bare"  ... Received query query: ...  (no "# Datasources: ")    *)
(*   "worker"     a line that holds "Worker"                               *)
(*   "prefix"     a line that holds "PREFIX"                               *)
(*   "req"        ... INFO: Requesting s ...                               *)
(*   "crash"      a line that holds the Virtuoso crash marker              *)
(*   "text"       any other line                                           *)
(***************************************************************************)
EpLog(kind, src) == [k |-> kind, src |-> src]

RecvA == EpLog("recv", <<"biosoda">>)
RecvB == EpLog("recv", <<"other", "biosoda">>)
RecvC == EpLog("recv", <<"other">>)
RecvBare == EpLog("recv_bare", <<>>)
WorkerL == EpLog("worker", <<>>)
PrefixL == EpLog("prefix", <<>>)
ReqL == EpLog("req", <<"biosoda">>)
ReqOther == EpLog("req", <<"other">>)
CrashL == EpLog("crash", <<>>)
TextL == EpLog("text", <<>>)

\* f = nf.readlines(): the lines with their place
Numbered(lines) == [m \in 1..Len(lines) |-> [k |-> lines[m].k, src |-> lines[m].src, n |-> m]]

\* the name source_list before its first assignment
Unbound == <<"<unbound>">>

\* an entry of all_queries; recv is history: the place of the "Received
\* query" line the entry was collected after (0: none)
EpQuery(query, select, http, reqs, sources, recv) ==
    [query |-> query, select |-> select, http_requests |-> http,
     source_requests |-> reqs, sources |-> sources, recv |-> recv, match |-> ""]

\* the locals of sparql_endpoint_comunica before the log is read
EpStart ==
    [ all_queries |-> <<>>, current_query |-> <<>>, current_http |-> <<>>,
      source_request_list |-> <<>>, select_statement |-> <<>>, source_list |-> Unbound,
      found_crash |-> FALSE, crash_reported |-> FALSE, crash_index |-> 0,
      within_query |-> FALSE, within_http |-> FALSE, within_query_tracker |-> FALSE,
      location |-> 0, current_recv |-> 0, exc |-> "None" ]

\* lines 186-190: one more request of the source
count_source(reqs, src) ==
    IF src \in DOMAIN reqs THEN [reqs EXCEPT ![src] = @ + 1] ELSE reqs @@ (src :> 1)

\* lines 151-178: a line that holds "Received query query:"
ep_received(st, line) ==
    LET source_list == line.src
        full == st.current_query # <<>> /\ st.current_http # <<>>
        appended == IF full
                    THEN Append(st.all_queries,
                                EpQuery(st.current_query, st.select_statement, st.current_http,
                                        st.source_request_list, source_list, st.current_recv))
                    ELSE st.all_queries
        report == full /\ st.found_crash /\ ~st.crash_reported
    IN [st EXCEPT !.source_list = source_list,
                  !.all_queries = appended,
                  !.crash_reported = IF report THEN TRUE ELSE @,
                  !.crash_index = IF report THEN Len(appended) - 1 ELSE @,
                  !.current_query = <<>>,
                  !.current_http = <<>>,
                  !.source_request_list = <<>>,
                  !.within_query = TRUE,
                  !.within_http = FALSE,
                  !.current_recv = line.n]

\* lines 181-184: a line that holds "Worker"
ep_worker(st) ==
    [st EXCEPT !.within_query = FALSE, !.within_http = TRUE, !.within_query_tracker = FALSE]

\* lines 187-193: a line of the body of the query
ep_body(st, line) ==
    [st EXCEPT !.within_query_tracker = IF line.k = "prefix" THEN TRUE ELSE @,
               !.select_statement =
                    IF line.k = "prefix" /\ ~st.within_query_tracker THEN <<line>>
                    ELSE IF st.within_query_tracker THEN Append(@, line)
                    ELSE @,
               !.current_query = Append(@, line)]

\* lines 196-206: a line of the HTTP requests of the query
ep_http(st, line) ==
    [st EXCEPT !.found_crash = IF line.k = "crash" THEN TRUE ELSE @,
               !.source_request_list = IF line.k = "req" THEN count_source(@, line.src[1]) ELSE @,
               !.current_http = IF line.k = "req" THEN Append(@, line) ELSE @]

\* lines 213-220: after the last line the query in progress is added
ep_last(st, last) ==
    IF st.location # last - 1 THEN [st EXCEPT !.location = @ + 1]
    ELSE IF st.source_list = Unbound THEN [st EXCEPT !.exc = "UnboundLocalError"]
    ELSE [st EXCEPT !.location = @ + 1,
                    !.all_queries =
                        Append(@, EpQuery(st.current_query, st.select_statement,
                                          st.current_http, st.source_request_list,
                                          st.source_list, st.current_recv))]

\* the body of "for line in f" (lines 148-221) on one line of a log of last
\* lines
ep_step(st, line, last) ==
    IF line.k = "recv_bare" THEN [st EXCEPT !.exc = "IndexError"]
    ELSE IF line.k = "recv" THEN ep_last(ep_received(st, line), last)
    ELSE IF line.k = "worker" THEN ep_last(ep_worker(st), last)
    ELSE IF st.within_query THEN ep_last(ep_body(st, line), last)
    ELSE IF st.within_http THEN ep_last(ep_http(st, line), last)
    ELSE [st EXCEPT !.location = @ + 1]

\* the characters of a line of the log
LineText(line) ==
    IF line.k = "prefix" THEN <<"a">>
    ELSE IF line.k = "text" THEN <<"sp", "b">>
    ELSE IF line.k = "req" THEN <<"b", "b">>
    ELSE <<"a", "a">>

RECURSIVE SelectText(_)
\* select_statement as a string: its lines joined by "\n"
SelectText(lines) ==
    IF lines = <<>> THEN <<>>
    ELSE IF Len(lines) = 1 THEN LineText(lines[1])
    ELSE LineText(lines[1]) \o <<"nl">> \o SelectText(Tail(lines))

\* the query files read into all_queries_local (lines 125-143)
EpCorpus ==
    << CorpusItem("001_ns", <<"a", "a">>),
       CorpusItem("002_ns", <<"a", "sp", "sp", "b", "nl">>) >>

\* lines 231-241: every entry gets its match
with_matches(qs) ==
    [m \in 1..Len(qs) |-> [qs[m] EXCEPT !.match = match_of(SelectText(qs[m].select), EpCorpus)]]

\* sorted(all_queries, key=lambda x: len(x['http_requests']), reverse=True):
\* more requests first, entries with as many in their old order
sorted_by_requests(qs) ==
    LET before(x, y) ==
            \/ Len(qs[x].http_requests) > Len(qs[y].http_requests)
            \/ (Len(qs[x].http_requests) = Len(qs[y].http_requests) /\ x < y)
        place(y) == 1 + Cardinality({x \in 1..Len(qs) : before(x, y)})
    IN [m \in 1..Len(qs) |-> qs[CHOOSE y \in 1..Len(qs) : place(y) = m]]

\* lines 246-255: what is printed about the crash.  encounters is the match
\* of all_queries[crash_index], caused the match of the nearest entry before
\* it that names the biosoda endpoint (<<>>: nothing printed)
crash_report(st, qs) ==
    IF ~st.crash_reported THEN [encounters |-> <<>>, caused |-> <<>>]
    ELSE LET earlier == {m \in 1..st.crash_index :
                            \E x \in 1..Len(qs[m].sources) : qs[m].sources[x] = "biosoda"}
         IN [encounters |-> <<qs[st.crash_index + 1].match>>,
             caused |-> IF earlier = {} THEN <<>> ELSE <<qs[MaxOf(earlier)].match>>]

\* the logs: any lines, and queries one after the other
EpKinds == {RecvA, RecvB, WorkerL, PrefixL, ReqL, CrashL}

EpSegments ==
    { <<RecvA, PrefixL, TextL, WorkerL, ReqL>>,
      <<RecvB, PrefixL, WorkerL, ReqOther, CrashL, ReqL>>,
      <<RecvC, TextL, WorkerL, ReqOther>>,
      <<RecvA, PrefixL, WorkerL, CrashL>>,
      <<RecvC, PrefixL, TextL>>,
      <<RecvBare, PrefixL, WorkerL, ReqL>> }

EpLogs ==
    {Numbered(ls) : ls \in SeqsUpTo(EpKinds, MaxLogLines)}
    \cup {Numbered(Concat(ss)) : ss \in SeqsUpTo(EpSegments, MaxQueries)}

EpInit ==
    /\ pc = "call"
    /\ dir = <<>>
    /\ inputs = <<>>
    /\ \E f \in EpLogs :
         call = [fn |-> "sparql_endpoint_comunica", f |-> f, at |-> "lines", st |-> EpStart,
                 all_queries_sorted |-> <<>>,
                 report |-> [encounters |-> <<>>, caused |-> <<>>]]
    /\ Fresh

\* one turn of "for line in f"
EpLine ==
    /\ call.fn = "sparql_endpoint_comunica"
    /\ call.at = "lines"
    /\ call.st.location < Len(call.f)
    /\ LET st == ep_step(call.st, call.f[call.st.location + 1], Len(call.f))
       IN /\ st.exc = "None"
          /\ call' = [call EXCEPT !.st = st]
    /\ UNCHANGED main_all

\* a turn that raises: IndexError of line 152, or source_list read before
\* any assignment at line 219
EpLine_Raise ==
    /\ call.fn = "sparql_endpoint_comunica"
    /\ call.at = "lines"
    /\ call.st.location < Len(call.f)
    /\ LET st == ep_step(call.st, call.f[call.st.location + 1], Len(call.f))
       IN /\ st.exc # "None"
          /\ call' = [call EXCEPT !.st = st, !.at = "raised"]
    /\ UNCHANGED main_all

\* lines 223-256: the matches, the sorted list that is returned, the crash
\* that is printed
EpFinish ==
    /\ call.fn = "sparql_endpoint_comunica"
    /\ call.at = "lines"
    /\ call.st.location = Len(call.f)
    /\ LET qs == with_matches(call.st.all_queries)
       IN call' = [call EXCEPT !.st.all_queries = qs,
                               !.all_queries_sorted = sorted_by_requests(qs),
                               !.report = crash_report(call.st, qs),
                               !.at = "done"]
    /\ UNCHANGED main_all

EpNext ==
    \/ EpLine
    \/ EpLine_Raise
    \/ EpFinish

SpecEndpoint == EpInit /\ [][EpNext]_vars

\* the "Received query" lines of the log, by their place
RecvLines(f) == {m \in 1..Len(f) : f[m].k \in {"recv", "recv_bare"}}

\* the "Received query" line the line at place m belongs to (0: none)
OwnerOf(f, m) ==
    IF \E x \in RecvLines(f) : x <= m THEN MaxOf({x \in RecvLines(f) : x <= m}) ELSE 0

\* the line at place m lies in the HTTP-request part of a logged query: after
\* a "Worker" line of its query
InHttpPart(f, m) ==
    /\ OwnerOf(f, m) # 0
    /\ f[m].k \notin {"recv", "recv_bare", "worker"}
    /\ \E x \in (OwnerOf(f, m) + 1)..(m - 1) : f[x].k = "worker"

\* C27: every recorded query has for 'sources' the datasource list of its
\* own "Received query query:" line, and its 'select' holds lines of its own
\* body only, none of the query before or after.
C27_OwnSourcesAndSelect ==
    (call.fn = "sparql_endpoint_comunica") =>
        \A m \in 1..Len(call.st.all_queries) :
            LET q == call.st.all_queries[m]
            IN /\ q.recv # 0
               /\ q.sources = call.f[q.recv].src
               /\ \A x \in 1..Len(q.select) : OwnerOf(call.f, q.select[x].n) = q.recv

\* C27, what the code does keep: the lines of 'query' and of 'http_requests'
\* are the query's own, and the entry added after the last line has its own
\* sources.
C27_OwnBodyAndRequests ==
    (call.fn = "sparql_endpoint_comunica") =>
        \A m \in 1..Len(call.st.all_queries) :
            LET q == call.st.all_queries[m]
            IN /\ \A x \in 1..Len(q.query) : OwnerOf(call.f, q.query[x].n) = q.recv
               /\ \A x \in 1..Len(q.http_requests) :
                     OwnerOf(call.f, q.http_requests[x].n) = q.recv
               /\ q.recv = MaxOf(RecvLines(call.f) \cup {0}) => q.sources = call.f[q.recv].src

\* the crash marker lines in the HTTP-request part of a logged query
CrashLines(f) == {m \in 1..Len(f) : f[m].k = "crash" /\ InHttpPart(f, m)}

\* C28: a crash is reported exactly when the crash marker occurs in the
\* HTTP-request part of a logged query, the last query of the log included;
\* it is reported once, and crash_index is the recorded query in whose
\* HTTP-request part the marker occurred first.
C28_CrashReportedWhereItOccurred ==
    (call.fn = "sparql_endpoint_comunica" /\ call.at = "done") =>
        /\ call.st.crash_reported = (CrashLines(call.f) # {})
        /\ (call.report.encounters # <<>>) = (CrashLines(call.f) # {})
        /\ call.st.crash_reported =>
              /\ call.st.crash_index + 1 \in 1..Len(call.st.all_queries)
              /\ call.st.all_queries[call.st.crash_index + 1].recv
                    = OwnerOf(call.f, MinOf(CrashLines(call.f)))

\* C28, what the code does keep: a crash is reported only when the marker
\* occurred in the HTTP-request part of a query, and crash_index is a
\* recorded query.
C28_ReportedOnlyIfOccurred ==
    (call.fn = "sparql_endpoint_comunica" /\ call.st.crash_reported) =>
        /\ \E m \in CrashLines(call.f) : m <= call.st.location
        /\ call.st.crash_index + 1 \in 1..Len(call.st.all_queries)

(***************************************************************************)
(* interpret_results.py, parse_output_log: one record per execution of the *)
(* output.log.  A line is its kind ("exec": 'Executing: node', "output":   *)
(* 'Output:', "json": a whole JSON document, "error": 'Error executing     *)
(* command for', "warn": a line that starts with WARN, "text": any other), *)
(* the query file of an "exec" line, the bindings and httpRequests of a    *)
(* "json" line, and the key words a line holds in lower case.              *)
(***************************************************************************)
OutLine(kind, file, n, http, words) ==
    [k |-> kind, file |-> file, n |-> n, http |-> http, words |-> words]

RunQ1 == OutLine("exec", "q1.rq", 0, PyNone, {})
RunQ2 == OutLine("exec", "q2.rq", 0, PyNone, {})
OutputL == OutLine("output", "", 0, PyNone, {})
\* a document with two bindings and "metadata": {"httpRequests": 7}
JsonTwo == OutLine("json", "", 2, <<7>>, {})
\* a document without results and without metadata: {}
JsonEmpty == OutLine("json", "", 0, PyNone, {})
\* a document whose "results" is null: data.get(...).get raises
JsonNull == OutLine("json", "", -1, PyNone, {})
ErrFetch == OutLine("error", "", 0, PyNone, {"fetch failed"})
ErrPlain == OutLine("error", "", 0, PyNone, {})
TextHangup == OutLine("text", "", 0, PyNone, {"hangup"})
WarnTerminated == OutLine("warn", "", 0, PyNone, {"terminated"})

\* a key of the record that was never set
NoKey == <<"<no key>">>

\* line 283: the record of an execution; 'exec' and 'from' are history, the
\* places of its 'Executing: node' line and of the outcome line it is
\* filled from
OutQuery(file, place) ==
    [queryFile |-> file, status |-> NoKey, numberOfResults |-> NoKey,
     numberOfHttpRequests |-> NoKey, errorType |-> NoKey, exec |-> place, from |-> 0]

\* lines 291-293 and 310-313: the first place from p on, 0-based, where
\* the inner scan stops: a line of one of the kinds, or the end
scan_until(lines, p, kinds) ==
    IF \E x \in (p + 1)..Len(lines) : lines[x].k \in kinds
    THEN MinOf({x \in (p + 1)..Len(lines) : lines[x].k \in kinds}) - 1
    ELSE Len(lines)

\* lines 294-306: json.loads of the joined lines p+1..q (places); one whole
\* document is read, anything else raises
output_outcome(cq, lines, p, q) ==
    LET content == SubSeq(lines, p + 1, q)
    IN IF Len(content) = 1 /\ content[1].k = "json" /\ content[1].n >= 0
       THEN [cq EXCEPT !.status = "success", !.numberOfResults = content[1].n,
                       !.numberOfHttpRequests = content[1].http, !.errorType = "N/A"]
       ELSE [cq EXCEPT !.status = "error", !.errorType = "Malformed output"]

\* lines 311-313: the key words of the error block, WARN lines left out
error_block(lines, p, q) ==
    UNION {lines[x].words : x \in {y \in (p + 1)..q : lines[y].k # "warn"}}

\* lines 315-332
error_type_of(block) ==
    IF "fetch failed" \in block THEN "fetch failed"
    ELSE IF "terminated" \in block THEN "terminated"
    ELSE IF block \cap {"fatal error", "js stacktrace", "heap limit"} # {} THEN "JS stacktrace"
    ELSE IF "hangup" \in block THEN "Hangup"
    ELSE IF "504 gateway time-out" \in block THEN "HTTP 504 Gateway Timeout"
    ELSE IF "<!doctype html system \"about:legacy-compat\">" \in block
         THEN "Random UniProt error"
    ELSE IF "http status" \in block THEN "HTTP Error"
    ELSE "Other"

OutKinds ==
    {RunQ1, RunQ2, OutputL, JsonTwo, JsonNull, ErrFetch, ErrPlain, TextHangup,
     WarnTerminated, JsonEmpty}

OutLogs == SeqsUpTo(OutKinds, MaxOutLines)

OutInit ==
    /\ pc = "call"
    /\ dir = <<>>
    /\ inputs = <<>>
    /\ \E lines \in OutLogs :
         call = [fn |-> "parse_output_log", lines |-> lines, i |-> 0, at |-> "outer",
                 current_query |-> PyNone, results |-> <<>>]
    /\ Fresh

\* lines 277-284 and 343-344: one turn of the outer loop
OutOuter ==
    /\ call.fn = "parse_output_log"
    /\ call.at = "outer"
    /\ call.i < Len(call.lines)
    /\ LET line == call.lines[call.i + 1]
       IN IF line.k = "exec"
          THEN call' = [call EXCEPT !.current_query = OutQuery(line.file, call.i + 1),
                                    !.i = call.i + 1, !.at = "inner"]
          ELSE call' = [call EXCEPT !.i = call.i + 1]
    /\ UNCHANGED main_all

\* lines 286-342: one turn of the inner loop
OutInner ==
    /\ call.fn = "parse_output_log"
    /\ call.at = "inner"
    /\ call.i < Len(call.lines)
    /\ LET next_line == call.lines[call.i + 1]
           cq == [call.current_query EXCEPT !.from = call.i + 1]
       IN IF next_line.k = "output"
          THEN LET q == scan_until(call.lines, call.i + 1, {"exec", "error"})
                   rec == output_outcome(cq, call.lines, call.i + 1, q)
               IN call' = [call EXCEPT !.i = q, !.current_query = rec,
                                       !.results = Append(call.results, rec),
                                       !.at = "outer"]
          ELSE IF next_line.k = "error"
          THEN LET q == scan_until(call.lines, call.i, {"exec", "output"})
                   rec == [cq EXCEPT !.status = "error",
                                     !.errorType =
                                         error_type_of(error_block(call.lines, call.i, q))]
               IN call' = [call EXCEPT !.i = q, !.current_query = rec,
                                       !.results = Append(call.results, rec),
                                       !.at = "outer"]
          ELSE call' = [call EXCEPT !.i = call.i + 1]
    /\ UNCHANGED main_all

\* line 286: the inner loop ends with the lines
OutInner_End ==
    /\ call.fn = "parse_output_log"
    /\ call.at = "inner"
    /\ call.i >= Len(call.lines)
    /\ call' = [call EXCEPT !.at = "outer"]
    /\ UNCHANGED main_all

\* lines 277 and 346: the outer loop ends, the results are returned
OutReturn ==
    /\ call.fn = "parse_output_log"
    /\ call.at = "outer"
    /\ call.i >= Len(call.lines)
    /\ call' = [call EXCEPT !.at = "done"]
    /\ UNCHANGED main_all

OutNext ==
    \/ OutOuter
    \/ OutInner
    \/ OutInner_End
    \/ OutReturn

SpecOutput == OutInit /\ [][OutNext]_vars

\* the 'Executing: node' lines of the log, by their place
ExecLines(lines) == {m \in 1..Len(lines) : lines[m].k = "exec"}

\* the lines between the 'Executing: node' line at place e and the next one
OwnLines(lines, e) ==
    {m \in (e + 1)..Len(lines) : \A x \in ExecLines(lines) : x > e => m < x}

\* the outcome lines of the execution at place e
OwnOutcomes(lines, e) == {m \in OwnLines(lines, e) : lines[m].k \in {"output", "error"}}

RecordsOf(results, e) == {m \in 1..Len(results) : results[m].exec = e}

\* C29: parse_output_log emits one record for every 'Executing: node' line,
\* and a record is filled only from an 'Output:' or 'Error executing command
\* for' line between its own 'Executing: node' line and the next one: an
\* execution without outcome line does not take the outcome of the next
\* execution, and the next execution keeps its record.
C29_OneRecordPerExecution ==
    (call.fn = "parse_output_log" /\ call.at = "done") =>
        /\ \A e \in ExecLines(call.lines) : Cardinality(RecordsOf(call.results, e)) = 1
        /\ \A m \in 1..Len(call.results) :
              call.results[m].from # 0 =>
                  call.results[m].from \in OwnLines(call.lines, call.results[m].exec)

\* C29, what the code does keep: when every execution has an outcome line
\* of its own, there is one record per execution, in the order of the log,
\* filled from the first outcome line of that execution.
C29_WhenEveryExecutionHasOutcome ==
    (/\ call.fn = "parse_output_log"
     /\ call.at = "done"
     /\ \A e \in ExecLines(call.lines) : OwnOutcomes(call.lines, e) # {}) =>
        /\ Len(call.results) = Cardinality(ExecLines(call.lines))
        /\ \A e \in ExecLines(call.lines) :
              \E m \in 1..Len(call.results) :
                  /\ call.results[m].exec = e
                  /\ call.results[m].from = MinOf(OwnOutcomes(call.lines, e))
                  /\ m = Cardinality({x \in ExecLines(call.lines) : x <= e})

\* C29, termination: every turn of a loop moves the index forward or leaves
\* the loop, and the index never passes the end of the log.
C29_EachTurnAdvances ==
    [][(call.fn = "parse_output_log") =>
          /\ (call'.i > call.i \/ call'.at # call.at)
          /\ call'.i <= Len(call.lines)]_vars

(***************************************************************************)
(* query_sort.py, withoutService and write_no_service_queries: the entries *)
(* of the corpus that are not excluded are written to ns_get and to three  *)
(* batches.  A key is "https://<host>/<base>"; an entry is its key, what   *)
(* its value holds for "query" ("none": no such property, "plain": a text  *)
(* without SERVICE line, "service": a text with one) and whether it has a  *)
(* "target".  A file is its directory, its base name and the key of the    *)
(* entry it was written from.                                              *)
(***************************************************************************)
QsKey(host, base) == [host |-> host, base |-> base]

key_text(key) == "https://" \o key.host \o "/" \o key.base

\* lines 194-196 and 269-271: os.path.basename, and the name made of the
\* whole key when it is empty
base_name_of(key) ==
    IF key.base # "" THEN key.base ELSE "00" \o key.host \o "_" \o key.base

\* lines 115-166, the names the corpora below can hold
excluded == {"14", "20", "46", "52", "54", "60", "002", "18a", "38", "49"}

\* lines 177-190
bgee ==
    {"50", "49", "109_uniprot_transporter_in_liver", "20", "16", "17", "19", "18",
     "117_biosodafrontend_glioblastoma_orthologs_rat",
     "118_biosodafrontend_rat_brain_human_cancer", "028-biosodafrontend",
     "027-biosodafrontend"}

\* lines 202-203
is_bgee(key) == key.base \in bgee \/ key_text(key) \in bgee

QsEntry(key, query, target) == [key |-> key, query |-> query, target |-> target]

QsEntries ==
    { QsEntry(QsKey("a", "50"), "plain", TRUE),
      QsEntry(QsKey("b", "50"), "plain", TRUE),
      QsEntry(QsKey("c", "50"), "service", TRUE),
      QsEntry(QsKey("a", "14"), "plain", TRUE),
      QsEntry(QsKey("a", "x"), "plain", TRUE),
      QsEntry(QsKey("b", "y"), "none", TRUE),
      QsEntry(QsKey("a", ""), "plain", FALSE),
      QsEntry(QsKey("b", "z"), "service", FALSE),
      QsEntry(QsKey("c", "w"), "service", TRUE) }

\* the corpus is a JSON object: its keys differ, its order is that of the file
QsCorpora ==
    {d \in SeqsUpTo(QsEntries, MaxEntries) :
        \A a, b \in 1..Len(d) : a # b => d[a].key # d[b].key}

\* the tests of lines 197 and 202-203
not_excluded(e) == base_name_of(e.key) \notin excluded
entry_is_bgee(e) == is_bgee(e.key)
entry_not_bgee(e) == ~is_bgee(e.key)

\* a Python slice list[a:b], 0-based, clipped to the list
py_slice(list, a, b) ==
    SubSeq(list, (IF a < Len(list) THEN a ELSE Len(list)) + 1, IF b < Len(list) THEN b ELSE Len(list))

\* lines 204-210
batches_of(other_queries) ==
    LET batch_size == (Len(other_queries) + 2) \div 3
    IN << py_slice(other_queries, 0, batch_size),
          py_slice(other_queries, batch_size, 2 * batch_size),
          py_slice(other_queries, 2 * batch_size, Len(other_queries)) >>

batch_dirs == <<"ns_batch1", "ns_batch2", "ns_batch3">>

\* the groups in the order they are written: ns_get, then the three batches
group_dir(g) == IF g = 0 THEN "ns_get" ELSE batch_dirs[g]

\* lines 269-273: the name an entry is written under
output_name(key, past_names) ==
    IF base_name_of(key) \in past_names THEN base_name_of(key) \o "a" ELSE base_name_of(key)

\* line 276-278: open(path, 'w') replaces a file of the same name
write_file(files, d, name, key) ==
    {f \in files : ~(f.dir = d /\ f.name = name)} \cup {[dir |-> d, name |-> name, key |-> key]}

QsInit ==
    /\ pc = "call"
    /\ dir = <<>>
    /\ inputs = <<>>
    /\ \E data \in QsCorpora :
         call = [fn |-> "withoutService", data |-> data, at |-> "collect",
                 groups |-> <<>>, g |-> 0, queries |-> <<>>, past_names |-> {},
                 files |-> {}, total |-> 0, printed |-> PyNone, skipped |-> {}]
    /\ Fresh

\* lines 192-221: the eligible entries, the Bgee entries and the batches;
\* the call of write_no_service_queries for ns_get begins
WithoutService_Collect ==
    /\ call.fn = "withoutService"
    /\ call.at = "collect"
    /\ LET all_queries == SelectSeq(call.data, not_excluded)
           bgee_queries == SelectSeq(all_queries, entry_is_bgee)
           other_queries == SelectSeq(all_queries, entry_not_bgee)
       IN call' = [call EXCEPT !.groups = <<bgee_queries>> \o batches_of(other_queries),
                               !.total = Len(bgee_queries),
                               !.g = 0,
                               !.queries = bgee_queries,
                               !.past_names = {},
                               !.at = "write"]
    /\ UNCHANGED main_all

\* lines 232-278: one turn of the loop of write_no_service_queries, for an
\* entry that has a query
WriteNoService_Item ==
    /\ call.fn = "withoutService"
    /\ call.at = "write"
    /\ call.queries # <<>>
    /\ LET e == Head(call.queries)
           name == output_name(e.key, call.past_names)
       IN /\ e.query # "none"
          /\ ~(e.query = "service" /\ ~e.target)
          /\ call' = [call EXCEPT
                        !.past_names = call.past_names \cup {name},
                        !.files = write_file(call.files, group_dir(call.g), name, e.key),
                        !.queries = Tail(call.queries)]
    /\ UNCHANGED main_all

\* lines 233-237: an entry without "query" is skipped
WriteNoService_Skip ==
    /\ call.fn = "withoutService"
    /\ call.at = "write"
    /\ call.queries # <<>>
    /\ Head(call.queries).query = "none"
    /\ call' = [call EXCEPT !.queries = Tail(call.queries),
                            !.skipped = call.skipped \cup {Head(call.queries).key}]
    /\ UNCHANGED main_all

\* line 256: "source not in ns_query_source" on a SERVICE line of an entry
\* without "target" raises TypeError, which nothing catches
WriteNoService_Raise ==
    /\ call.fn = "withoutService"
    /\ call.at = "write"
    /\ call.queries # <<>>
    /\ Head(call.queries).query = "service"
    /\ ~Head(call.queries).target
    /\ call' = [call EXCEPT !.at = "raised"]
    /\ UNCHANGED main_all

\* lines 223-227: the next batch is counted and its call begins
WithoutService_Batch ==
    /\ call.fn = "withoutService"
    /\ call.at = "write"
    /\ call.queries = <<>>
    /\ call.g < 3
    /\ LET batch == call.groups[call.g + 2]
       IN call' = [call EXCEPT !.total = call.total + Len(batch),
                               !.g = call.g + 1,
                               !.queries = batch,
                               !.past_names = {}]
    /\ UNCHANGED main_all

\* line 228: the total is printed
WithoutService_Total ==
    /\ call.fn = "withoutService"
    /\ call.at = "write"
    /\ call.queries = <<>>
    /\ call.g = 3
    /\ call' = [call EXCEPT !.printed = <<call.total>>, !.at = "done"]
    /\ UNCHANGED main_all

QsNext ==
    \/ WithoutService_Collect
    \/ WriteNoService_Item
    \/ WriteNoService_Skip
    \/ WriteNoService_Raise
    \/ WithoutService_Batch
    \/ WithoutService_Total

SpecQuerySort == QsInit /\ [][QsNext]_vars

\* the places of the corpus entries whose base name is not excluded
NonExcluded(data) == {m \in 1..Len(data) : base_name_of(data[m].key) \notin excluded}

\* the files written from the entry of a key
FilesOf(files, key) == {f \in files : f.key = key}

\* the number of a directory in the order ns_get, ns_batch1..3
DirNo(d) == IF d = "ns_get" THEN 0 ELSE CHOOSE g \in 1..3 : batch_dirs[g] = d

\* C30: withoutService partitions the entries whose base name is not
\* excluded: each is written to exactly one group, ns_get when it is a Bgee
\* entry and one of the three batches otherwise, the batches follow the
\* order of the corpus, no entry is dropped or written twice, and the total
\* that is printed is the number of entries that are not excluded.
C30_PartitionOfTheCorpus ==
    (call.fn = "withoutService" /\ call.at = "done") =>
        /\ \A m \in NonExcluded(call.data) :
              /\ Cardinality(FilesOf(call.files, call.data[m].key)) = 1
              /\ \A f \in FilesOf(call.files, call.data[m].key) :
                    (f.dir = "ns_get") = is_bgee(call.data[m].key)
        /\ \A a, b \in NonExcluded(call.data) :
              \A fa \in FilesOf(call.files, call.data[a].key) :
                  \A fb \in FilesOf(call.files, call.data[b].key) :
                      (a < b /\ fa.dir # "ns_get" /\ fb.dir # "ns_get")
                          => DirNo(fa.dir) <= DirNo(fb.dir)
        /\ call.printed = <<Cardinality(NonExcluded(call.data))>>

\* C30, what the code does keep: no file is written from an excluded
\* entry, no entry is written to two files, a Bgee entry is written to
\* ns_get only and another entry to a batch only, the batches follow the
\* order of the corpus, and the total that is printed is the number of
\* entries that are not excluded.
C30_NoEntryInTwoGroups ==
    (call.fn = "withoutService") =>
        /\ \A f \in call.files :
              \E m \in NonExcluded(call.data) :
                  /\ call.data[m].key = f.key
                  /\ (f.dir = "ns_get") = is_bgee(f.key)
        /\ \A m \in 1..Len(call.data) :
              Cardinality(FilesOf(call.files, call.data[m].key)) <= 1
        /\ \A a, b \in NonExcluded(call.data) :
              \A fa \in FilesOf(call.files, call.data[a].key) :
                  \A fb \in FilesOf(call.files, call.data[b].key) :
                      (a < b /\ fa.dir # "ns_get" /\ fb.dir # "ns_get")
                          => DirNo(fa.dir) <= DirNo(fb.dir)
        /\ call.at = "done" => call.printed = <<Cardinality(NonExcluded(call.data))>>

====
